---- MODULE Spec2Model ----
(***************************************************************************)
(* ia-crm: the recommendation run engine, the audit/gating engine and the  *)
(* Brevo dispatch service, modelled over the relational store.             *)
(*                                                                         *)
(* Tables are sequences of rows in insertion (id) order.  Dates are day    *)
(* numbers; a missing value (Python None) is the number None.  Scores and  *)
(* prices are integers (popularity in percent).                            *)
(***************************************************************************)
EXTENDS Integers, Sequences, FiniteSets, TLC

\* ------------------------------------------------------------------ bounds
MaxClients == 6
MaxAudited == 3
MaxRuns == 2
MaxDispatch == 2
MaxCampaignSends == 1
MaxTicks == 1
MaxRfmSales == 2
MaxStoredRows == 5
MaxCsvRows == 2
MaxRawFiles == 2
MaxIngestRuns == 2

\* ------------------------------------------------------- program constants
BatchSizeMin == 200
BatchSizeMax == 300
PreviewLimit == 5
RebuyExclusionDays == 30
EligibleScoreMin == 80
ErrorPenalty == 40
WarnPenalty == 10
DiversityMinRecos == 3

None == 0 - 1
Tenants == {1, 2}
TopNs == {1, 3}
Silences == {7}
DaySteps == {7}

\* ----------------------------------------------------------------- helpers
Range(s) == {s[i] : i \in DOMAIN s}

Max2(a, b) == IF a >= b THEN a ELSE b

RECURSIVE SumSeq(_)
SumSeq(s) == IF s = <<>> THEN 0 ELSE Head(s) + SumSeq(Tail(s))

\* Python's list.sort(key=..., reverse=True), keys[i] being the key of s[i]:
\* stable, equal keys keep their order.
SortDesc(s, keys) ==
    LET n == Len(s)
        pos(i) == Cardinality({j \in 1..n : keys[j] > keys[i] \/ (keys[j] = keys[i] /\ j < i)}) + 1
    IN  [r \in 1..n |-> s[CHOOSE i \in 1..n : pos(i) = r]]

\* the keys of a dict built by inserting K(s[1]), K(s[2]), ... (first insertion order)
RECURSIVE DictKeys(_, _)
DictKeys(s, acc) ==
    IF s = <<>> THEN acc
    ELSE IF Head(s) \in Range(acc) THEN DictKeys(Tail(s), acc)
         ELSE DictKeys(Tail(s), Append(acc, Head(s)))

VARIABLES
    now,             \* the wall clock (utcnow), in days
    clients,         \* table clients
    products,        \* table products
    sales,           \* table sales
    contact_events,  \* table contact_events
    reco_runs,       \* table reco_runs; run_id is the row's index
    execs,           \* per run: position of generate_recommendations_run and its locals
    recommendations, \* table recommendations
    reco_output,     \* table reco_output
    reco_items,      \* table reco_items
    audit_output,    \* table audit_output
    next_action,     \* table next_action_output
    run_summary,     \* table run_summary
    brevo_logs,      \* table brevo_logs
    contact_history, \* table contact_history
    brevo_calls,     \* payloads received by the external Brevo client
    campaign_status, \* table campaigns: id -> status
    last,            \* the last send_batch call: its inputs and its outcome
    ticks,           \* clock advances so far
    response,        \* the answer of the last read request of the API
    client_rfm,      \* the RFM columns of table clients, per client id, once computed
    raw_dir,         \* the files of tenant 1's raw directory, in listing order
    manifest,        \* the names of the raw files already ingested (.manifest.json)
    staging_dir,     \* the files of tenant 1's staging directory
    curated_dir,     \* the files of tenant 1's curated directory, in listing order
    product_alias,   \* table product_alias
    etl_result,      \* the last call of the loader or of the orchestrator and its outcome
    input_dir,       \* the source directory handed to run_ingestion, in listing order
    runs_dir         \* the runs/{run_id} directories written by run_ingestion, with their reports

vars == <<now, clients, products, sales, contact_events, reco_runs, execs,
          recommendations, reco_output, reco_items, audit_output, next_action,
          run_summary, brevo_logs, contact_history, brevo_calls, campaign_status,
          last, ticks, response, client_rfm, raw_dir, manifest, staging_dir, curated_dir,
          product_alias, etl_result, input_dir, runs_dir>>

store == <<clients, products, sales>>
outputs == <<recommendations, reco_output, reco_items, audit_output, next_action, run_summary>>
dispatch == <<brevo_logs, contact_history, brevo_calls, last>>
reads == <<response>>
metrics == <<client_rfm>>
files == <<raw_dir, manifest, staging_dir, curated_dir>>
ingestion == <<input_dir, runs_dir>>
etl == <<files, product_alias, etl_result, ingestion>>

\* ------------------------------------------------- recommendation engine
TenantRows(table, tenant_id) == SelectSeq(table, LAMBDA r : r.tenant_id = tenant_id)

\* product_map = {p.product_key: p for p in products if p.product_key}, as the
\* sequence product_map.values(): one entry per key, at the key's first position,
\* holding the last product inserted under that key.
product_map_of(prods) ==
    LET keyed == SelectSeq(prods, LAMBDA p : p.product_key # "")
        keys == DictKeys([i \in DOMAIN keyed |-> keyed[i].product_key], <<>>)
        lastOf(k) == keyed[CHOOSE i \in DOMAIN keyed :
                              /\ keyed[i].product_key = k
                              /\ \A j \in DOMAIN keyed : keyed[j].product_key = k => j <= i]
    IN  [i \in DOMAIN keys |-> lastOf(keys[i])]

InMap(product_map, key) == \E i \in DOMAIN product_map : product_map[i].product_key = key

MapGet(product_map, key) ==
    product_map[CHOOSE i \in DOMAIN product_map : product_map[i].product_key = key]

\* s.quantity or 1
QtyOr1(sale) == IF sale.quantity = None \/ sale.quantity = 0 THEN 1 ELSE sale.quantity

\* prod.price_ttc or 0
PriceOr0(prod) == IF prod.price_ttc = None THEN 0 ELSE prod.price_ttc

\* Counter of quantities per product_key, as (key, count) pairs in insertion order
_product_popularity(tenant_sales) ==
    LET keyed == SelectSeq(tenant_sales, LAMBDA s : s.product_key # "")
        keys == DictKeys([i \in DOMAIN keyed |-> keyed[i].product_key], <<>>)
        total(k) == SumSeq([i \in DOMAIN keyed |->
                              IF keyed[i].product_key = k THEN QtyOr1(keyed[i]) ELSE 0])
    IN  [i \in DOMAIN keys |-> [key |-> keys[i], count |-> total(keys[i])]]

\* Counter.most_common(): by count, descending, ties in insertion order
most_common(popularity) ==
    SortDesc(popularity, [i \in DOMAIN popularity |-> popularity[i].count])

RECURSIVE RebuyRows(_, _, _, _)
RebuyRows(purchases, product_map, t_now, rows) ==
    IF purchases = <<>> THEN rows
    ELSE LET sale == Head(purchases)
             rest == Tail(purchases)
         IN  IF \/ ~InMap(product_map, sale.product_key)
                \/ sale.product_key \in {r.prod.product_key : r \in Range(rows)}
             THEN RebuyRows(rest, product_map, t_now, rows)
             ELSE IF sale.sale_date # None /\ t_now - sale.sale_date < RebuyExclusionDays
             THEN RebuyRows(rest, product_map, t_now, rows)
             ELSE RebuyRows(rest, product_map, t_now,
                            Append(rows, [prod |-> MapGet(product_map, sale.product_key),
                                          qty |-> QtyOr1(sale)]))

_rebuy_candidates(purchases, product_map, t_now) ==
    LET unsorted == RebuyRows(purchases, product_map, t_now, <<>>)
        rows == SortDesc(unsorted, [i \in DOMAIN unsorted |-> unsorted[i].qty])
    IN  [i \in DOMAIN rows |-> rows[i].prod]

_cross_sell_candidates(popularity, purchased, product_map) ==
    LET ordered == most_common(popularity)
        ordered_keys == SelectSeq([i \in DOMAIN ordered |-> ordered[i].key],
                                  LAMBDA k : k \notin purchased)
        present == SelectSeq(ordered_keys, LAMBDA k : InMap(product_map, k))
    IN  [i \in DOMAIN present |-> MapGet(product_map, present[i])]

\* prod.price_ttc > average_price, with average_price = price_sum / max(1, n_purchases)
AbovePurchaseAverage(price, price_sum, n_purchases) ==
    price * Max2(1, n_purchases) > price_sum

_upsell_candidates(purchases, product_map, purchased, price_sum) ==
    LET fam_match(prod) ==
            \E i \in DOMAIN purchases :
                /\ InMap(product_map, purchases[i].product_key)
                /\ MapGet(product_map, purchases[i].product_key).family_crm = prod.family_crm
        keep(prod) ==
            /\ prod.product_key \notin purchased
            /\ prod.family_crm # ""
            /\ prod.price_ttc # None
            /\ fam_match(prod)
            /\ AbovePurchaseAverage(prod.price_ttc, price_sum, Len(purchases))
        candidates == SelectSeq(product_map, keep)
    IN  SortDesc(candidates, [i \in DOMAIN candidates |-> candidates[i].price_ttc])

NewReco(client, prod, scenario) ==
    [customer_code |-> client.client_code,
     product_key |-> prod.product_key,
     scenario |-> scenario,
     score |-> prod.global_popularity_score]

\* the inner add_candidates: skips products already added, and returns as soon as
\* an append brings the list to top_n entries (the length is not tested before it)
RECURSIVE add_candidates(_, _, _, _, _)
add_candidates(recos, prods, scenario, top_n, client) ==
    IF prods = <<>> THEN recos
    ELSE IF Head(prods).product_key \in {r.product_key : r \in Range(recos)}
         THEN add_candidates(recos, Tail(prods), scenario, top_n, client)
         ELSE LET grown == Append(recos, NewReco(client, Head(prods), scenario))
              IN  IF Len(grown) >= top_n THEN grown
                  ELSE add_candidates(grown, Tail(prods), scenario, top_n, client)

_build_recommendations_for_client(client, purchases, product_map, popularity, top_n, t_now) ==
    LET purchased_keys == {purchases[i].product_key : i \in DOMAIN purchases}
        known == SelectSeq(purchases, LAMBDA s : InMap(product_map, s.product_key))
        price_sum == SumSeq([i \in DOMAIN known |-> PriceOr0(MapGet(product_map, known[i].product_key))])
        r1 == add_candidates(<<>>, _rebuy_candidates(purchases, product_map, t_now),
                             "rebuy", top_n, client)
        r2 == add_candidates(r1, _upsell_candidates(purchases, product_map, purchased_keys, price_sum),
                             "upsell", top_n, client)
        r3 == add_candidates(r2, _cross_sell_candidates(popularity, purchased_keys, product_map),
                             "cross_sell", top_n, client)
    IN  IF r3 = <<>> THEN add_candidates(r3, product_map, "nurture", top_n, client) ELSE r3

\* ------------------------------------------------------ audit / gating engine
Issue(severity, rule_code) == [severity |-> severity, rule_code |-> rule_code]

\* the purchases whose product exists with a truthy price_ttc
PricedPurchases(purchases, product_map) ==
    SelectSeq(purchases, LAMBDA s : /\ InMap(product_map, s.product_key)
                                    /\ MapGet(product_map, s.product_key).price_ttc # None
                                    /\ MapGet(product_map, s.product_key).price_ttc # 0)

\* price <= _avg_purchase_price(purchases, product_map); the average is 0.0
\* when no purchase has a price
NotAboveAuditAverage(price, purchases, product_map) ==
    LET priced == PricedPurchases(purchases, product_map)
        total == SumSeq([i \in DOMAIN priced |-> MapGet(product_map, priced[i].product_key).price_ttc])
    IN  IF priced = <<>> THEN price <= 0 ELSE price * Len(priced) <= total

\* Counter(sugars).most_common(1)[0][0], or "" (None) when no purchase has a sugar level
_dominant_sugar(purchases, product_map) ==
    LET sweet == SelectSeq(purchases, LAMBDA s : /\ InMap(product_map, s.product_key)
                                                  /\ MapGet(product_map, s.product_key).sucrosite_niveau # "")
        sugars == [i \in DOMAIN sweet |-> MapGet(product_map, sweet[i].product_key).sucrosite_niveau]
        keys == DictKeys(sugars, <<>>)
        counted == [i \in DOMAIN keys |->
                      [key |-> keys[i],
                       count |-> Cardinality({j \in DOMAIN sugars : sugars[j] = keys[i]})]]
    IN  IF sugars = <<>> THEN "" ELSE most_common(counted)[1].key

\* the issues of the per-recommendation loop, in order
RECURSIVE RecoIssues(_, _, _)
RecoIssues(recos, product_map, purchases) ==
    IF recos = <<>> THEN <<>>
    ELSE LET reco == Head(recos)
             rest == RecoIssues(Tail(recos), product_map, purchases)
         IN  IF ~InMap(product_map, reco.product_key) THEN rest
             ELSE LET prod == MapGet(product_map, reco.product_key)
                      upsell == IF /\ reco.scenario = "upsell"
                                   /\ prod.price_ttc # None
                                   /\ NotAboveAuditAverage(prod.price_ttc, purchases, product_map)
                                THEN <<Issue("ERROR", "UPSELL_NOT_HIGHER")>> ELSE <<>>
                      cross == IF /\ reco.scenario = "cross_sell"
                                  /\ prod.product_key \in {purchases[i].product_key : i \in DOMAIN purchases}
                               THEN <<Issue("WARN", "CROSS_SELL_NOT_NEW")>> ELSE <<>>
                  IN  upsell \o cross \o rest

audit_score_of(errors, warns) == Max2(0, 100 - ErrorPenalty * errors - WarnPenalty * warns)

\* is_eligible testing the score against the wrong threshold and not the errors
is_eligible_by_score(errors, audit_score) == audit_score >= EligibleScoreMin - ErrorPenalty

is_eligible(errors, audit_score) == errors = 0 /\ audit_score >= EligibleScoreMin

audit_client(client, recos, product_map, events, purchases, silence_window_days, t_now) ==
    LET email == IF ~client.email THEN <<Issue("ERROR", "MISSING_EMAIL")>> ELSE <<>>
        optout == IF client.email_opt_out THEN <<Issue("ERROR", "OPTOUT_OR_BOUNCE")>> ELSE <<>>
        bounce == IF \E i \in DOMAIN events : events[i].status \in {"bounce", "unsubscribe"}
                  THEN <<Issue("ERROR", "OPTOUT_OR_BOUNCE")>> ELSE <<>>
        silence == IF \E i \in DOMAIN events :
                         /\ events[i].contact_date # None
                         /\ t_now - events[i].contact_date < silence_window_days
                   THEN <<Issue("ERROR", "SILENCE_WINDOW")>> ELSE <<>>
        dupes == IF \E i, j \in DOMAIN recos :
                       i # j /\ recos[i].product_key # "" /\ recos[i].product_key = recos[j].product_key
                 THEN <<Issue("ERROR", "RECENT_DUPLICATE")>> ELSE <<>>
        mapped == SelectSeq(recos, LAMBDA r : InMap(product_map, r.product_key))
        families == SelectSeq([i \in DOMAIN mapped |-> MapGet(product_map, mapped[i].product_key).family_crm],
                              LAMBDA f : f # "")
        top_count == IF families = <<>> THEN 0
                     ELSE LET n(f) == Cardinality({i \in DOMAIN families : families[i] = f})
                          IN  n(CHOOSE f \in Range(families) : \A g \in Range(families) : n(g) <= n(f))
        diversity == IF /\ recos # <<>>
                        /\ families # <<>>
                        /\ top_count * 10 > 7 * Max2(1, Len(recos))
                        /\ Len(recos) >= DiversityMinRecos
                     THEN <<Issue("WARN", "LOW_DIVERSITY")>> ELSE <<>>
        dominant_sugar == _dominant_sugar(purchases, product_map)
        sugar == IF /\ dominant_sugar # ""
                    /\ \E i \in DOMAIN mapped :
                          /\ MapGet(product_map, mapped[i].product_key).sucrosite_niveau # ""
                          /\ MapGet(product_map, mapped[i].product_key).sucrosite_niveau # dominant_sugar
                 THEN <<Issue("WARN", "SUGAR_MISMATCH")>> ELSE <<>>
        issues == email \o optout \o bounce \o silence \o dupes
                  \o RecoIssues(recos, product_map, purchases) \o diversity \o sugar
        errors == Cardinality({i \in DOMAIN issues : issues[i].severity = "ERROR"})
        warns == Len(issues) - errors
        audit_score == audit_score_of(errors, warns)
        eligible == is_eligible(errors, audit_score)
    IN  [issues |-> issues,
         audit_score |-> audit_score,
         eligible |-> eligible,
         reason |-> IF eligible THEN "" ELSE
                    IF issues # <<>> THEN issues[1].rule_code ELSE "AUDIT_SCORE_BELOW_THRESHOLD"]

\* ---------------------------------------------------------------- the store
ClientCodes == <<"C1", "C2", "C3", "C4", "C5", "C6", "C7", "C8">>
Defects == {"none", "no_email", "opt_out", "dup_code", "bounce"}
Catalogues == {"basic", "sugar", "mono"}
Histories == {"none", "old", "recent", "split"}

Client(id, code, email, opt_out, tenant_id) ==
    [id |-> id, client_code |-> code, email |-> email, email_opt_out |-> opt_out,
     tenant_id |-> tenant_id]

Product(id, key, family, price, sugar, popularity, tenant_id) ==
    [id |-> id, product_key |-> key, family_crm |-> family, price_ttc |-> price,
     sucrosite_niveau |-> sugar, global_popularity_score |-> popularity,
     is_active |-> TRUE, is_archived |-> FALSE, tenant_id |-> tenant_id]

Sale(document_id, key, code, quantity, sale_date, tenant_id) ==
    [document_id |-> document_id, product_key |-> key, client_code |-> code,
     quantity |-> quantity, sale_date |-> sale_date, tenant_id |-> tenant_id]

ContactEvent(client_id, contact_date, status, campaign_id, tenant_id) ==
    [client_id |-> client_id, contact_date |-> contact_date, status |-> status,
     campaign_id |-> campaign_id, tenant_id |-> tenant_id]

\* n clients of tenant 1, the last one carrying the defect, then one client of
\* tenant 2 whose client_code also exists in tenant 1
ClientsOf(n, defect) ==
    [i \in 1..n |->
        Client(i,
               IF i = n /\ defect = "dup_code" THEN ClientCodes[1] ELSE ClientCodes[i],
               ~(i = n /\ defect = "no_email"),
               i = n /\ defect = "opt_out",
               1)]
    \o <<Client(n + 1, ClientCodes[1], TRUE, FALSE, 2)>>

ProductsOf(catalogue) ==
    CASE catalogue = "basic" ->
           <<Product(1, "P1", "Rouge", 8, "sec", 40, 1),
             Product(2, "P2", "Rouge", 20, "sec", 60, 1),
             Product(3, "P1", "Blanc", 10, "", 50, 2)>>
      [] catalogue = "sugar" ->
           <<Product(1, "P1", "Rouge", 12, "doux", 40, 1),
             Product(2, "P2", "Blanc", 15, "sec", 60, 1),
             Product(3, "P3", "Rouge", 25, "sec", 80, 1),
             Product(4, "P1", "Blanc", 10, "", 50, 2)>>
      [] catalogue = "mono" ->
           <<Product(1, "P1", "Rouge", 8, "sec", 40, 1),
             Product(2, "P2", "Rouge", 20, "sec", 60, 1),
             Product(3, "P3", "Rouge", 25, "sec", 80, 1),
             Product(4, "P1", "Blanc", 10, "", 50, 2)>>

\* one sale per client of tenant 1, or none
SalesOf(n, history, today) ==
    IF history = "none" THEN <<>>
    ELSE [i \in 1..n |->
            Sale(i,
                 IF history = "split" /\ i % 2 = 0 THEN "P2" ELSE "P1",
                 ClientCodes[i],
                 1,
                 IF history = "recent" THEN today - 10 ELSE today - 60,
                 1)]

NoResponse ==
    [user_id |-> 0, tenant_id |-> 0, path |-> "", key |-> "", status |-> 0, rows |-> <<>>]

NoCall ==
    [tenant_id |-> 0, run_id |-> 0, batch_size |-> 0, force_dry_run |-> "none",
     env_dry_run |-> TRUE, preview_only |-> FALSE, result |-> "", batch_id |-> 0]

NoCallYet == [op |-> "none"]

\* no run, no dispatch, no request, no metrics yet
BlankApp ==
    /\ reco_runs = <<>>
    /\ execs = <<>>
    /\ recommendations = <<>>
    /\ reco_output = <<>>
    /\ reco_items = <<>>
    /\ audit_output = <<>>
    /\ next_action = <<>>
    /\ run_summary = <<>>
    /\ brevo_logs = <<>>
    /\ contact_history = <<>>
    /\ brevo_calls = <<>>
    /\ campaign_status = [c \in {1} |-> "draft"]
    /\ last = NoCall
    /\ ticks = 0
    /\ response = NoResponse
    /\ client_rfm = <<>>

\* and no file, no alias, no loader call, no ingestion yet
Blank ==
    /\ BlankApp
    /\ raw_dir = <<>>
    /\ manifest = {}
    /\ staging_dir = <<>>
    /\ curated_dir = <<>>
    /\ product_alias = <<>>
    /\ etl_result = NoCallYet
    /\ input_dir = <<>>
    /\ runs_dir = <<>>

\* the store after the tenants' data was loaded, before any run or dispatch
Loaded(n, defect, catalogue, history) ==
    /\ now = 100
    /\ clients = ClientsOf(n, defect)
    /\ products = ProductsOf(catalogue)
    /\ sales = SalesOf(n, history, 100)
    /\ contact_events = IF defect = "bounce"
                        THEN <<ContactEvent(n, 0, "bounce", None, 1)>> ELSE <<>>
    /\ Blank

Purchases ==
    {<<"basic", "old">>, <<"sugar", "old">>, <<"sugar", "recent">>, <<"sugar", "split">>,
     <<"mono", "none">>, <<"mono", "old">>}

\* the stores the run engine is checked on: up to MaxAudited clients who bought
\* the sweet wine, the last one sound or with any defect, or two clients with any
\* defect, or two sound clients with any catalogue and purchase history
Init ==
    \E n \in 1..MaxAudited, defect \in Defects, catalogue \in Catalogues, history \in Histories :
        /\ \/ catalogue = "sugar" /\ history = "old" /\ (defect = "none" \/ n >= 3)
           \/ n = 2 /\ catalogue = "basic" /\ history = "old"
           \/ n = 2 /\ defect = "none" /\ <<catalogue, history>> \in Purchases
        /\ Loaded(n, defect, catalogue, history)

\* the stores the dispatch is checked on: any number of clients who bought P1,
\* the last one possibly without an e-mail address
InitDispatch ==
    \E n \in 1..MaxClients, defect \in {"none", "no_email"} :
        /\ defect = "no_email" => n = 2
        /\ Loaded(n, defect, "basic", "old")

\* --------------------------------------------- generate_recommendations_run
RECURSIVE Concat(_)
Concat(ss) == IF ss = <<>> THEN <<>> ELSE Head(ss) \o Concat(Tail(ss))

NotOfTenant(table, tenant_id) == SelectSeq(table, LAMBDA r : r.tenant_id # tenant_id)

\* contact events of the tenant's clients (ContactEvent joined to Client on client_id)
TenantEvents(tenant_id) ==
    SelectSeq(contact_events,
              LAMBDA e : \E i \in DOMAIN clients :
                             clients[i].id = e.client_id /\ clients[i].tenant_id = tenant_id)

\* the run row is created as running and committed
RunStart(tenant_id, top_n, silence_window_days) ==
    /\ Len(reco_runs) < MaxRuns
    /\ reco_runs' = Append(reco_runs,
                           [run_id |-> Len(reco_runs) + 1, tenant_id |-> tenant_id,
                            status |-> "running", started_at |-> now, finished_at |-> None,
                            dataset_version |-> None])
    /\ execs' = Append(execs, [pc |-> "started", top_n |-> top_n,
                               silence_window_days |-> silence_window_days,
                               contact_events |-> <<>>])
    /\ UNCHANGED <<now, store, contact_events, outputs, dispatch, campaign_status, ticks, reads, metrics, etl>>

\* the tenant's rows are read, its earlier outputs are deleted, and that is committed
RunClean(r) ==
    /\ execs[r].pc = "started"
    /\ LET tenant_id == reco_runs[r].tenant_id IN
        /\ execs' = [execs EXCEPT ![r].pc = "cleaned",
                                  ![r].contact_events = TenantEvents(tenant_id)]
        /\ recommendations' = NotOfTenant(recommendations, tenant_id)
        /\ reco_output' = NotOfTenant(reco_output, tenant_id)
        /\ audit_output' = NotOfTenant(audit_output, tenant_id)
        /\ next_action' = NotOfTenant(next_action, tenant_id)
        /\ run_summary' = NotOfTenant(run_summary, tenant_id)
        /\ reco_items' = NotOfTenant(reco_items, tenant_id)
    /\ UNCHANGED <<now, store, contact_events, reco_runs, dispatch, campaign_status, ticks, reads, metrics, etl>>

\* one iteration of the loop over the tenant's clients: recommendations and audit
ClientPass(r, client) ==
    LET tenant_id == reco_runs[r].tenant_id
        product_map == product_map_of(TenantRows(products, tenant_id))
        tenant_sales == TenantRows(sales, tenant_id)
        purchases == SelectSeq(tenant_sales, LAMBDA s : s.client_code = client.client_code)
        recos == _build_recommendations_for_client(
                     client, purchases, product_map, _product_popularity(tenant_sales),
                     execs[r].top_n, reco_runs[r].started_at)
        events == SelectSeq(execs[r].contact_events, LAMBDA e : e.client_id = client.id)
    IN  [client |-> client,
         recos |-> recos,
         product_map |-> product_map,
         audit |-> audit_client(client, recos, product_map, events, purchases,
                                execs[r].silence_window_days, now)]

RecoOutputRows(r, pass) ==
    [idx \in DOMAIN pass.recos |->
        [run_id |-> r, customer_code |-> pass.client.client_code,
         scenario |-> pass.recos[idx].scenario, rank |-> idx,
         product_key |-> pass.recos[idx].product_key, score |-> pass.recos[idx].score,
         tenant_id |-> reco_runs[r].tenant_id]]

RecoItemRows(r, pass) ==
    LET ranked == [idx \in DOMAIN pass.recos |-> [rank |-> idx, reco |-> pass.recos[idx]]]
        mapped == SelectSeq(ranked, LAMBDA e : InMap(pass.product_map, e.reco.product_key))
    IN  [i \in DOMAIN mapped |->
            [run_id |-> r, client_id |-> pass.client.id,
             product_id |-> MapGet(pass.product_map, mapped[i].reco.product_key).id,
             scenario |-> mapped[i].reco.scenario, rank |-> mapped[i].rank,
             score |-> mapped[i].reco.score, tenant_id |-> reco_runs[r].tenant_id]]

RecommendationRows(r, pass) ==
    [idx \in DOMAIN pass.recos |->
        [client_code |-> pass.client.client_code, product_key |-> pass.recos[idx].product_key,
         score |-> pass.recos[idx].score, scenario |-> pass.recos[idx].scenario,
         tenant_id |-> reco_runs[r].tenant_id]]

\* client_id is not a column of audit_output or next_action_output: it records
\* which iteration of the loop wrote the row
AuditOutputRows(r, pass) ==
    [i \in DOMAIN pass.audit.issues |->
        [run_id |-> r, customer_code |-> pass.client.client_code,
         severity |-> pass.audit.issues[i].severity, rule_code |-> pass.audit.issues[i].rule_code,
         tenant_id |-> reco_runs[r].tenant_id, client_id |-> pass.client.id]]

NextActionRow(r, pass) ==
    [run_id |-> r, customer_code |-> pass.client.client_code,
     eligible |-> pass.audit.eligible, reason |-> pass.audit.reason,
     scenario |-> IF pass.recos # <<>> THEN pass.recos[1].scenario ELSE "",
     audit_score |-> pass.audit.audit_score,
     tenant_id |-> reco_runs[r].tenant_id, client_id |-> pass.client.id]

\* the value stored under "gate_export": the dict literal names the key twice and
\* Python keeps the last value, eligible == len(clients)
gate_export_of(total_errors, run_audit_score, eligible, total_clients) ==
    eligible = total_clients

summary_of(passes) ==
    LET issues == Concat([i \in DOMAIN passes |-> passes[i].audit.issues])
        total_errors == Cardinality({i \in DOMAIN issues : issues[i].severity = "ERROR"})
        total_warns == Len(issues) - total_errors
        eligible == Cardinality({i \in DOMAIN passes : passes[i].audit.eligible})
        run_audit_score == audit_score_of(total_errors, total_warns)
    IN  [gating_rate |-> [num |-> eligible, den |-> Max2(1, Len(passes))],
         total_clients |-> Len(passes),
         total_recommendations |-> Len(Concat([i \in DOMAIN passes |-> passes[i].recos])),
         n_errors |-> total_errors,
         n_warns |-> total_warns,
         audit_score |-> run_audit_score,
         gate_export |-> gate_export_of(total_errors, run_audit_score, eligible, Len(passes))]

\* the loop over the clients, the output rows, the summary and the final commit
RunFinish(r) ==
    /\ execs[r].pc = "cleaned"
    /\ LET tenant_id == reco_runs[r].tenant_id
           tenant_clients == TenantRows(clients, tenant_id)
           passes == [i \in DOMAIN tenant_clients |-> ClientPass(r, tenant_clients[i])]
       IN
        /\ recommendations' = recommendations
               \o Concat([i \in DOMAIN passes |-> RecommendationRows(r, passes[i])])
        /\ reco_output' = reco_output
               \o Concat([i \in DOMAIN passes |-> RecoOutputRows(r, passes[i])])
        /\ reco_items' = reco_items
               \o Concat([i \in DOMAIN passes |-> RecoItemRows(r, passes[i])])
        /\ audit_output' = audit_output
               \o Concat([i \in DOMAIN passes |-> AuditOutputRows(r, passes[i])])
        /\ next_action' = next_action \o [i \in DOMAIN passes |-> NextActionRow(r, passes[i])]
        /\ run_summary' = Append(run_summary,
               [run_id |-> r, tenant_id |-> tenant_id, summary |-> summary_of(passes)])
        /\ reco_runs' = [reco_runs EXCEPT ![r].status = "completed",
                                          ![r].finished_at = now,
                                          ![r].dataset_version = Len(TenantRows(sales, tenant_id))]
    /\ execs' = [execs EXCEPT ![r].pc = "completed"]
    /\ UNCHANGED <<now, store, contact_events, dispatch, campaign_status, ticks, reads, metrics, etl>>

\* an exception (a storage error) leaves the function after the run row was
\* committed: nothing catches it, the uncommitted work is dropped with the session
RunAbort(r) ==
    /\ execs[r].pc \in {"started", "cleaned"}
    /\ execs' = [execs EXCEPT ![r].pc = "crashed"]
    /\ UNCHANGED <<now, store, contact_events, reco_runs, outputs, dispatch, campaign_status, ticks, reads, metrics, etl>>

\* ------------------------------------------------------------ brevo_service
\* force_dry_run if it is given, else the BREVO_DRY_RUN environment flag
\* _is_dry_run falling back to False, not to the environment flag
_is_dry_run_unless_forced(force_dry_run, env_dry_run) == force_dry_run = "true"

_is_dry_run(force_dry_run, env_dry_run) ==
    IF force_dry_run # "none" THEN force_dry_run = "true" ELSE env_dry_run

\* summary_json.get("gate_export", False) of the first summary of the run and tenant
GateOpen(tenant_id, run_id) ==
    \E i \in DOMAIN run_summary :
        /\ run_summary[i].run_id = run_id /\ run_summary[i].tenant_id = tenant_id
        /\ \A j \in 1..(i - 1) :
              ~(run_summary[j].run_id = run_id /\ run_summary[j].tenant_id = tenant_id)
        /\ run_summary[i].summary.gate_export

EligibleRows(tenant_id, run_id) ==
    SelectSeq(next_action, LAMBDA row : /\ row.run_id = run_id
                                         /\ row.tenant_id = tenant_id
                                         /\ row.eligible)

\* s[:n]
Take(s, n) == SubSeq(s, 1, IF Len(s) < n THEN Len(s) ELSE n)

\* the contacts the batch is recorded and sent for
PreviewOf(tenant_id, run_id, batch_size) ==
    LET rows == EligibleRows(tenant_id, run_id)
        client_codes == Take([i \in DOMAIN rows |-> rows[i].customer_code], batch_size)
        found == SelectSeq(clients, LAMBDA c : /\ c.tenant_id = tenant_id
                                               /\ c.client_code \in Range(client_codes))
    IN  Take(SelectSeq(found, LAMBDA c : c.email), PreviewLimit)

\* send_batch without the test of gate_export
SendBatchOutcomeUngated(tenant_id, run_id, batch_size) ==
    IF batch_size < BatchSizeMin \/ batch_size > BatchSizeMax THEN "bad_batch_size"
    ELSE IF EligibleRows(tenant_id, run_id) = <<>> THEN "no_eligible"
    ELSE "ok"

\* why send_batch raises ValueError, or "ok"
SendBatchOutcome(tenant_id, run_id, batch_size) ==
    IF batch_size < BatchSizeMin \/ batch_size > BatchSizeMax THEN "bad_batch_size"
    ELSE IF ~GateOpen(tenant_id, run_id) THEN "gating_disabled"
    ELSE IF EligibleRows(tenant_id, run_id) = <<>> THEN "no_eligible"
    ELSE "ok"

send_batch(tenant_id, run_id, batch_size, force_dry_run, env_dry_run, preview_only) ==
    LET outcome == SendBatchOutcome(tenant_id, run_id, batch_size)
        dry_run == _is_dry_run(force_dry_run, env_dry_run)
        preview == PreviewOf(tenant_id, run_id, batch_size)
        batch_id == Len(brevo_logs) + 1
        status == IF dry_run \/ preview_only THEN "dry_run" ELSE "ready"
    IN
    /\ Len(brevo_logs) < MaxDispatch
    /\ last' = [tenant_id |-> tenant_id, run_id |-> run_id,
                batch_size |-> batch_size, force_dry_run |-> force_dry_run,
                env_dry_run |-> env_dry_run, preview_only |-> preview_only,
                result |-> outcome, batch_id |-> IF outcome = "ok" THEN batch_id ELSE 0]
    /\ IF outcome # "ok"
       THEN UNCHANGED <<brevo_logs, contact_history, brevo_calls>>
       ELSE /\ brevo_logs' = Append(brevo_logs,
                   [run_id |-> run_id, batch_id |-> batch_id, action |-> "send_batch",
                    status |-> status, count |-> Len(preview), batch_size |-> batch_size,
                    tenant_id |-> tenant_id])
            /\ contact_history' = contact_history \o
                   [i \in DOMAIN preview |->
                       [customer_code |-> preview[i].client_code, last_contact_at |-> now,
                        channel |-> "email", status |-> status, batch_id |-> batch_id,
                        tenant_id |-> tenant_id]]
            /\ brevo_calls' = IF ~dry_run /\ ~preview_only
                              THEN Append(brevo_calls,
                                          [run_id |-> run_id, batch_id |-> batch_id,
                                           contacts |-> [i \in DOMAIN preview |-> preview[i].client_code]])
                              ELSE brevo_calls
    /\ UNCHANGED <<now, store, contact_events, reco_runs, execs, outputs, campaign_status, ticks, reads, metrics, etl>>

\* the calls of POST /brevo/send_batch that are tried: the default (BREVO_DRY_RUN
\* unset or 1), a real send, each flag overriding the other, and the two batch
\* sizes just outside the accepted interval
Call(batch_size, force_dry_run, env_dry_run, preview_only) ==
    [batch_size |-> batch_size, force_dry_run |-> force_dry_run,
     env_dry_run |-> env_dry_run, preview_only |-> preview_only]

Calls ==
    {Call(200, "none", TRUE, FALSE), Call(200, "none", FALSE, FALSE),
     Call(300, "true", FALSE, FALSE), Call(200, "false", TRUE, FALSE),
     Call(200, "false", TRUE, TRUE),
     Call(199, "none", TRUE, FALSE), Call(301, "none", TRUE, FALSE)}

SendBatch ==
    \E tenant_id \in Tenants, run_id \in DOMAIN reco_runs, call \in Calls :
        send_batch(tenant_id, run_id, call.batch_size, call.force_dry_run,
                   call.env_dry_run, call.preview_only)

\* the contact event send_email records for one recommendation of the campaign
EmailEvents(reco, tenant_id, campaign_id, env_dry_run) ==
    LET found == SelectSeq(clients, LAMBDA c : /\ c.client_code = reco.client_code
                                               /\ c.tenant_id = tenant_id)
    IN  IF found = <<>> THEN <<>>
        ELSE <<ContactEvent(found[1].id, now,
                            IF _is_dry_run("none", env_dry_run) THEN "dry_run" ELSE "delivered",
                            campaign_id, tenant_id)>>

\* POST /campaigns/{campaign_id}/send: one e-mail per recommendation of the tenant
send_campaign(campaign_id, tenant_id, env_dry_run) ==
    /\ campaign_id \in DOMAIN campaign_status
    /\ tenant_id = 1
    /\ Cardinality({i \in DOMAIN contact_events : contact_events[i].campaign_id = campaign_id})
          < MaxCampaignSends
    /\ LET recos == TenantRows(recommendations, tenant_id) IN
          contact_events' = contact_events \o
              Concat([i \in DOMAIN recos |-> EmailEvents(recos[i], tenant_id, campaign_id, env_dry_run)])
    /\ campaign_status' = [campaign_status EXCEPT ![campaign_id] = "sent"]
    /\ UNCHANGED <<now, store, reco_runs, execs, outputs, dispatch, ticks, reads, metrics, etl>>

SendCampaign == \E env_dry_run \in BOOLEAN : send_campaign(1, 1, env_dry_run)

AdvanceClock ==
    \E days \in DaySteps :
        /\ ticks < MaxTicks
        /\ now' = now + days
        /\ ticks' = ticks + 1
        /\ UNCHANGED <<store, contact_events, reco_runs, execs, outputs, dispatch, campaign_status,
                       reads, metrics, etl>>

\* ------------------------------------------------------------ read paths
\* the authenticated callers: a user and a superuser of tenant 1, a user of tenant 2
User(id, tenant_id, is_superuser) ==
    [id |-> id, tenant_id |-> tenant_id, is_superuser |-> is_superuser]

Users == {User(1, 1, FALSE), User(2, 1, TRUE), User(3, 2, FALSE)}

\* a row with the ownership columns the access filters read
Owned(row, owner_user_id, visibility) ==
    row @@ [owner_user_id |-> owner_user_id, visibility |-> visibility]

\* owner_user_id == current_user.id, visibility == "tenant" or owner_user_id IS NULL
Visible(row, current_user) ==
    \/ row.owner_user_id = current_user.id
    \/ row.visibility = "tenant"
    \/ row.owner_user_id = None

\* _accessible_clients_query without the filter on tenant_id
accessible_clients_any_tenant(current_user) ==
    IF current_user.is_superuser THEN clients
    ELSE SelectSeq(clients, LAMBDA c : Visible(c, current_user))

_accessible_clients_query(current_user) ==
    LET query == TenantRows(clients, current_user.tenant_id)
    IN  IF current_user.is_superuser THEN query
        ELSE SelectSeq(query, LAMBDA c : Visible(c, current_user))

\* query.offset(offset).limit(limit).all()
Page(rows, offset, limit) ==
    SubSeq(rows, offset + 1, IF Len(rows) < offset + limit THEN Len(rows) ELSE offset + limit)

Answer(current_user, path, key, status, rows) ==
    /\ response' = [user_id |-> current_user.id, tenant_id |-> current_user.tenant_id,
                    path |-> path, key |-> key, status |-> status, rows |-> rows]
    /\ UNCHANGED <<now, store, contact_events, reco_runs, execs, outputs, dispatch,
                   campaign_status, ticks, metrics, etl>>

\* the first row, or 404 when the query is empty
FirstOr404(current_user, path, key, rows) ==
    IF rows = <<>> THEN Answer(current_user, path, key, 404, <<>>)
    ELSE Answer(current_user, path, key, 200, <<rows[1]>>)

\* GET /clients/ (rows by id; the text search is not used)
list_clients(current_user, limit, offset) ==
    Answer(current_user, "list_clients", "", 200,
           Page(_accessible_clients_query(current_user), offset, limit))

\* GET /clients/{client_code}
get_client(current_user, client_code) ==
    FirstOr404(current_user, "get_client", client_code,
               SelectSeq(_accessible_clients_query(current_user),
                         LAMBDA c : c.client_code = client_code))

\* GET /products/
list_products(current_user) ==
    Answer(current_user, "list_products", "", 200,
           TenantRows(products, current_user.tenant_id))

\* GET /products/{product_key}
get_product(current_user, product_key) ==
    FirstOr404(current_user, "get_product", product_key,
               SelectSeq(TenantRows(products, current_user.tenant_id),
                         LAMBDA prod : prod.product_key = product_key))

\* GET /recommendations/ with its default filters: the recommendations of the
\* tenant joined to its products and, unless the caller is a superuser, to its
\* clients, both visible to the caller (the order by score is not modelled)
list_recommendations(current_user, limit, offset) ==
    LET joined_product(reco) ==
            \E i \in DOMAIN products :
                /\ products[i].tenant_id = reco.tenant_id
                /\ products[i].product_key = reco.product_key
                /\ current_user.is_superuser \/ Visible(products[i], current_user)
        joined_client(reco) ==
            \E i \in DOMAIN clients :
                /\ clients[i].tenant_id = reco.tenant_id
                /\ clients[i].client_code = reco.client_code
                /\ Visible(clients[i], current_user)
        rows == SelectSeq(TenantRows(recommendations, current_user.tenant_id),
                          LAMBDA reco : /\ joined_product(reco)
                                        /\ current_user.is_superuser \/ joined_client(reco))
    IN  Answer(current_user, "list_recommendations", "", 200, Page(rows, offset, limit))

\* _get_run_or_404: whether the run exists for the tenant
RunOfTenant(run_id, tenant_id) ==
    \E r \in DOMAIN reco_runs :
        reco_runs[r].run_id = run_id /\ reco_runs[r].tenant_id = tenant_id

RunRows(table, run_id, tenant_id) ==
    SelectSeq(table, LAMBDA row : row.run_id = run_id /\ row.tenant_id = tenant_id)

\* GET /export/runs/{run_id}/reco_output.csv, audit_output.csv,
\* next_action_output.csv and run_summary.json (run.summary is the summary row
\* of the run, whatever its tenant_id)
export_run(current_user, path, run_id) ==
    IF ~RunOfTenant(run_id, current_user.tenant_id)
    THEN Answer(current_user, path, run_id, 404, <<>>)
    ELSE Answer(current_user, path, run_id, 200,
                CASE path = "export_reco_output" ->
                         RunRows(reco_output, run_id, current_user.tenant_id)
                  [] path = "export_audit_output" ->
                         RunRows(audit_output, run_id, current_user.tenant_id)
                  [] path = "export_next_action_output" ->
                         RunRows(next_action, run_id, current_user.tenant_id)
                  [] path = "export_run_summary" ->
                         SelectSeq(run_summary, LAMBDA row : row.run_id = run_id))

ExportPaths ==
    {"export_reco_output", "export_audit_output", "export_next_action_output",
     "export_run_summary"}

ListClients ==
    \E current_user \in Users, limit \in {1, 100}, offset \in {0, 1} :
        list_clients(current_user, limit, offset)

GetClient ==
    \E current_user \in Users, i \in 1..4 : get_client(current_user, ClientCodes[i])

ListProducts == \E current_user \in Users : list_products(current_user)

GetProduct ==
    \E current_user \in Users, product_key \in {"P1", "P2", "P9"} :
        get_product(current_user, product_key)

ListRecommendations ==
    \E current_user \in Users : list_recommendations(current_user, 50, 0)

ExportRun ==
    \E current_user \in Users, path \in ExportPaths, run_id \in 1..MaxRuns :
        export_run(current_user, path, run_id)

\* the store the read paths are checked on: three clients of tenant 1, the second
\* one private to the superuser, the third private to the user, and the products
\* of tenant 1 owned the same way
InitReads ==
    /\ now = 100
    /\ clients = [i \in 1..4 |->
                     Owned(ClientsOf(3, "none")[i],
                           IF i \in {2, 3} THEN 4 - i ELSE None,
                           IF i = 1 THEN "tenant" ELSE "private")]
    /\ products = [i \in 1..3 |->
                      Owned(ProductsOf("basic")[i], IF i = 2 THEN 2 ELSE None, "private")]
    /\ sales = SalesOf(3, "old", 100)
    /\ contact_events = <<>>
    /\ Blank

\* ------------------------------------------------------------ rfm_service
MaxOf(S) == CHOOSE d \in S : \A e \in S : e <= d

\* average_order_value, the quotient total_spent / total_orders kept as a
\* fraction, 0.0 when there is no order
Quotient(total_spent, total_orders) ==
    IF total_orders > 0 THEN <<total_spent, total_orders>> ELSE <<0, 1>>

\* the metrics of one client_code; a NULL document_id is the empty string
BasicMetrics(tenant_sales, code) ==
    LET mine == SelectSeq(tenant_sales, LAMBDA s : s.client_code = code)
        dates == {mine[i].sale_date : i \in DOMAIN mine} \ {None}
        amount(s) == IF s.amount # None THEN s.amount
                     ELSE IF s.quantity # None THEN s.quantity ELSE 0
        documents == {mine[i].document_id : i \in DOMAIN mine} \ {""}
    IN  [client_code |-> code,
         last_purchase_date |-> IF dates = {} THEN None ELSE MaxOf(dates),
         total_spent |-> SumSeq([i \in DOMAIN mine |-> amount(mine[i])]),
         total_orders |-> Cardinality(documents)]

\* the metrics dict, as its values in insertion order (first sale of each code)
_compute_basic_metrics(tenant_id) ==
    LET tenant_sales == TenantRows(sales, tenant_id)
        codes == DictKeys([i \in DOMAIN tenant_sales |-> tenant_sales[i].client_code], <<>>)
    IN  [i \in DOMAIN codes |-> BasicMetrics(tenant_sales, codes[i])]

\* np.quantile(arr, k / 5), times 5: linear interpolation between the two order
\* statistics around position (n - 1) * k / 5
Quantile5(arr, k) ==
    LET sorted == SortDesc(arr, [i \in DOMAIN arr |-> 0 - arr[i]])
        h == (Len(arr) - 1) * k
        i == h \div 5
        rem == h % 5
    IN  IF rem = 0 THEN 5 * sorted[i + 1]
        ELSE (5 - rem) * sorted[i + 1] + rem * sorted[i + 2]

\* the first of the five bands v falls in: v <= quintiles[0], ..., else the fifth
Band(v, arr) == 1 + Cardinality({k \in 1..4 : 5 * v > Quantile5(arr, k)})

\* 5 for the lowest band down to 1 for the highest, 0 for None
_quantile_scores(values) ==
    LET arr == SelectSeq(values, LAMBDA v : v # None)
    IN  [i \in DOMAIN values |-> IF values[i] = None THEN 0 ELSE 6 - Band(values[i], arr)]

\* 1 for the lowest band up to 5 for the highest, 0 for None
score_positive(values) ==
    LET arr == SelectSeq(values, LAMBDA v : v # None)
    IN  [i \in DOMAIN values |-> IF values[i] = None THEN 0 ELSE Band(values[i], arr)]

_map_segment(r_score, f_score, m_score) ==
    IF r_score >= 4 /\ f_score >= 4 /\ m_score >= 4 THEN "Champions"
    ELSE IF f_score >= 4 /\ r_score >= 3 THEN "Loyal Customers"
    ELSE IF m_score >= 4 /\ f_score >= 3 THEN "Big Spenders"
    ELSE IF r_score >= 4 /\ f_score <= 2 THEN "Recent Customers"
    ELSE IF r_score >= 3 /\ f_score >= 2 /\ m_score >= 2 THEN "Promising"
    ELSE IF r_score <= 2 /\ f_score <= 2 THEN "At Risk"
    ELSE "Others"

\* the columns written on a client row; r_score, f_score and m_score are the
\* locals the rfm_score was composed from
RfmColumns(last_purchase_date, total_spent, total_orders, recency, r_score, f_score, m_score,
           rfm_score, rfm_segment) ==
    [last_purchase_date |-> last_purchase_date, total_spent |-> total_spent,
     total_orders |-> total_orders,
     average_order_value |-> Quotient(total_spent, total_orders),
     recency |-> recency, frequency |-> total_orders, monetary |-> total_spent,
     r_score |-> r_score, f_score |-> f_score, m_score |-> m_score,
     rfm_score |-> rfm_score, rfm_segment |-> rfm_segment]

\* the ids of the first client of the tenant with that code, if any
FirstClient(tenant_id, client_code) ==
    LET found == SelectSeq(clients, LAMBDA c : c.tenant_id = tenant_id
                                                 /\ c.client_code = client_code)
    IN  IF found = <<>> THEN {} ELSE {found[1].id}

compute_rfm_for_tenant(tenant_id) ==
    LET basic == _compute_basic_metrics(tenant_id)
        all_dates == {basic[i].last_purchase_date : i \in DOMAIN basic} \ {None}
    IN
    /\ IF basic = <<>> \/ all_dates = {} THEN UNCHANGED client_rfm
       ELSE LET reference_date == MaxOf(all_dates)
                recency_list == [i \in DOMAIN basic |->
                                    IF basic[i].last_purchase_date # None
                                    THEN reference_date - basic[i].last_purchase_date
                                    ELSE None]
                r_scores == _quantile_scores(recency_list)
                f_scores == score_positive([i \in DOMAIN basic |-> basic[i].total_orders])
                m_scores == score_positive([i \in DOMAIN basic |-> basic[i].total_spent])
                ids == UNION {FirstClient(tenant_id, basic[i].client_code) : i \in DOMAIN basic}
                idx(id) == CHOOSE i \in DOMAIN basic :
                               id \in FirstClient(tenant_id, basic[i].client_code)
                columns(i) ==
                    RfmColumns(basic[i].last_purchase_date, basic[i].total_spent,
                               basic[i].total_orders,
                               IF recency_list[i] # None THEN recency_list[i] ELSE 0,
                               r_scores[i], f_scores[i], m_scores[i],
                               r_scores[i] + f_scores[i] + m_scores[i],
                               _map_segment(r_scores[i], f_scores[i], m_scores[i]))
            IN  client_rfm' = [id \in DOMAIN client_rfm \cup ids |->
                                  IF id \in ids THEN columns(idx(id)) ELSE client_rfm[id]]
    /\ UNCHANGED <<now, store, contact_events, reco_runs, execs, outputs, dispatch,
                   campaign_status, ticks, reads, etl>>

\* ---------------------------------------------------------- client_metrics
_recency_score(recency_days) ==
    IF recency_days = None THEN 1
    ELSE IF recency_days <= 30 THEN 5
    ELSE IF recency_days <= 90 THEN 4
    ELSE IF recency_days <= 180 THEN 3
    ELSE IF recency_days <= 365 THEN 2
    ELSE 1

_frequency_score(total_orders) ==
    IF total_orders >= 12 THEN 5
    ELSE IF total_orders >= 6 THEN 4
    ELSE IF total_orders >= 3 THEN 3
    ELSE IF total_orders >= 2 THEN 2
    ELSE 1

_monetary_score(total_spent) ==
    IF total_spent >= 2000 THEN 5
    ELSE IF total_spent >= 1000 THEN 4
    ELSE IF total_spent >= 500 THEN 3
    ELSE IF total_spent >= 200 THEN 2
    ELSE 1

_rfm_segment(recency, frequency, monetary) ==
    IF recency >= 4 /\ frequency >= 4 /\ monetary >= 4 THEN "Champions"
    ELSE IF recency >= 4 /\ frequency >= 3 THEN "Loyal"
    ELSE IF recency >= 4 /\ frequency <= 2 THEN "New"
    ELSE IF recency <= 2 /\ frequency >= 3 THEN "At Risk"
    ELSE "Others"

\* the columns derived from the sale rows of a client_code in every tenant
recomputed_columns_any_tenant(rows, t_now, tenant_id, client_code) ==
    LET mine == SelectSeq(rows, LAMBDA s : s.client_code = client_code)
        dates == {mine[i].sale_date : i \in DOMAIN mine} \ {None}
        last_purchase_date == IF dates = {} THEN None ELSE MaxOf(dates)
        total_spent == SumSeq([i \in DOMAIN mine |->
                                  IF mine[i].amount # None THEN mine[i].amount ELSE 0])
        count_documents == Cardinality({mine[i].document_id : i \in DOMAIN mine} \ {""})
        total_orders == IF count_documents # 0 THEN count_documents ELSE Len(mine)
        recency == IF last_purchase_date # None THEN t_now - last_purchase_date ELSE None
    IN  RfmColumns(last_purchase_date, total_spent, total_orders, recency,
                   _recency_score(recency), _frequency_score(total_orders),
                   _monetary_score(total_spent),
                   _recency_score(recency) * 100 + _frequency_score(total_orders) * 10
                       + _monetary_score(total_spent),
                   _rfm_segment(_recency_score(recency), _frequency_score(total_orders),
                                _monetary_score(total_spent)))

\* the columns recompute_client_metrics derives from the sale rows of one
\* client_code, at the date t_now; a NULL document_id is the empty string
recomputed_columns(rows, t_now, tenant_id, client_code) ==
    LET mine == SelectSeq(rows, LAMBDA s : s.tenant_id = tenant_id
                                            /\ s.client_code = client_code)
        dates == {mine[i].sale_date : i \in DOMAIN mine} \ {None}
        last_purchase_date == IF dates = {} THEN None ELSE MaxOf(dates)
        total_spent == SumSeq([i \in DOMAIN mine |->
                                  IF mine[i].amount # None THEN mine[i].amount ELSE 0])
        count_sales == Len(mine)
        count_documents == Cardinality({mine[i].document_id : i \in DOMAIN mine} \ {""})
        total_orders == IF count_documents # 0 THEN count_documents ELSE count_sales
        recency == IF last_purchase_date # None THEN t_now - last_purchase_date ELSE None
        recency_score == _recency_score(recency)
        frequency_score == _frequency_score(total_orders)
        monetary_score == _monetary_score(total_spent)
    IN  RfmColumns(last_purchase_date, total_spent, total_orders, recency,
                   recency_score, frequency_score, monetary_score,
                   recency_score * 100 + frequency_score * 10 + monetary_score,
                   _rfm_segment(recency_score, frequency_score, monetary_score))

\* a client that does not exist raises ValueError before anything is written
recompute_client_metrics(tenant_id, client_code) ==
    LET ids == FirstClient(tenant_id, client_code)
    IN
    /\ ids # {}
    /\ client_rfm' = [id \in DOMAIN client_rfm \cup ids |->
                         IF id \in ids
                         THEN recomputed_columns(sales, now, tenant_id, client_code)
                         ELSE client_rfm[id]]
    /\ UNCHANGED <<now, store, contact_events, reco_runs, execs, outputs, dispatch,
                   campaign_status, ticks, reads, etl>>

ComputeRfm == \E tenant_id \in Tenants : compute_rfm_for_tenant(tenant_id)

RecomputeClient ==
    \E tenant_id \in Tenants, client_code \in {"C1", "C2"} :
        recompute_client_metrics(tenant_id, client_code)

\* the sale rows the metrics are checked on
RfmSales ==
    {Sale(document_id, "P1", code, 3, sale_date, tenant_id) @@ [amount |-> amount] :
        document_id \in {"", "D1"}, code \in {"C1", "C2"}, sale_date \in {None, 40, 100},
        amount \in {None, 2500}, tenant_id \in {1}}

\* two clients of tenant 1 and one of tenant 2, up to MaxRfmSales sales of tenant 1
\* and one sale of tenant 2
InitRfm ==
    \E n \in 1..MaxRfmSales : \E rows \in [1..n -> RfmSales] :
        /\ now = 100
        /\ clients = ClientsOf(2, "none")
        /\ products = ProductsOf("basic")
        /\ sales = rows \o <<Sale("D9", "P1", "C1", 1, 90, 2) @@ [amount |-> 300]>>
        /\ contact_events = <<>>
        /\ Blank

\* ------------------------------------------------------ load_postgres_multi
\* A CSV file: its name, its header (a set of column names) and its rows, each a
\* function from the header to the cell.  A blank cell (NaN) is the empty string.
Csv(name, columns, rows) == [name |-> name, columns |-> columns, rows |-> rows]

\* the cell of a column, NULL when the file has no such column
Cell(row, col) == IF col \in DOMAIN row THEN row[col] ELSE ""

\* the rows at the positions idx, in order
RowsAt(rows, idx) ==
    LET at(r) == CHOOSE i \in idx : Cardinality({j \in idx : j < i}) = r - 1
    IN  [r \in 1..Cardinality(idx) |-> rows[at(r)]]

\* strip, lower case, accents and punctuation removed, blanks collapsed
_normalize_label(label) ==
    CASE label = "Pinot Noir" -> "pinot noir"
      [] label = " PINOT-NOIR" -> "pinot noir"
      [] label = "Riesling" -> "riesling"
      [] label = "Inconnu" -> "inconnu"
      [] OTHER -> label

\* pd.to_datetime(errors="coerce") on the sale_date cell, as a day number
to_datetime(cell) ==
    CASE cell = "2024-01-10" -> 10
      [] cell = "2024-02-09" -> 40
      [] OTHER -> None

\* a numeric cell as stored in a Float column
to_number(cell) ==
    CASE cell = "1" -> 1
      [] cell = "2" -> 2
      [] cell = "300" -> 300
      [] OTHER -> None

\* required_columns, a tuple being a choice of columns
required_columns(table_name) ==
    CASE table_name = "clients" -> <<{"client_code"}>>
      [] table_name = "products" -> <<{"product_key"}, {"name"}>>
      [] table_name = "sales" -> <<{"document_id"}, {"client_code"},
                                   {"product_key", "product_label"}>>
      [] OTHER -> <<>>

missing_cols(table_name, columns) ==
    SelectSeq(required_columns(table_name), LAMBDA col : col \cap columns = {})

\* the natural key the table is deduplicated on, or {} when the rows are kept:
\* sales are deduplicated only if the three key columns are all in the file
dedup_cols(table_name, columns) ==
    CASE table_name = "sales" ->
           IF {"document_id", "product_key", "client_code"} \subseteq columns
           THEN {"document_id", "product_key", "client_code"} \cup ({"tenant_id"} \cap columns)
           ELSE {}
      [] table_name = "clients" -> {"client_code"} \cap columns
      [] table_name = "products" -> {"product_key"} \cap columns
      [] OTHER -> {}

\* DataFrame.drop_duplicates(subset, keep="last"); two blank cells are equal
drop_duplicates(rows, subset) ==
    LET key(i) == [c \in subset |-> rows[i][c]]
    IN  RowsAt(rows, {i \in DOMAIN rows : \A j \in DOMAIN rows : j > i => key(j) # key(i)})

\* the label -> product_key dict as (label_norm, product_key) pairs in row order:
\* the tenant's product_alias rows, or when there is none the tenant's products
\* by normalized name
alias_map_of(tenant_id, db) ==
    LET aliases == TenantRows(product_alias, tenant_id)
        prods == TenantRows(db.products, tenant_id)
    IN  IF aliases # <<>>
        THEN [i \in DOMAIN aliases |-> [label_norm |-> aliases[i].label_norm,
                                        product_key |-> aliases[i].product_key]]
        ELSE [i \in DOMAIN prods |-> [label_norm |-> _normalize_label(prods[i].name),
                                      product_key |-> prods[i].product_key]]

\* alias_map.get(norm): the value of the last pair with that label, "" for None
alias_get(alias_map, norm) ==
    LET hits == {i \in DOMAIN alias_map : alias_map[i].label_norm = norm}
    IN  IF hits = {} THEN "" ELSE alias_map[MaxOf(hits)].product_key

\* str(row.get("product_label", "")): a blank cell reads "nan"
label_raw(row) == IF Cell(row, "product_label") = "" THEN "nan" ELSE row["product_label"]

\* the rows that reach the alias loop without a product_key
LacksKey(row) == Cell(row, "product_key") = ""

\* row by row: the product_key after resolution
mapped_key(row, alias_map) ==
    IF LacksKey(row) /\ alias_get(alias_map, _normalize_label(label_raw(row))) # ""
    THEN alias_get(alias_map, _normalize_label(label_raw(row)))
    ELSE Cell(row, "product_key")

\* the alias loop runs only over a file that has a product_label column
Resolves(table_name, columns) == table_name = "sales" /\ "product_label" \in columns

resolved_rows(rows, alias_map) ==
    SelectSeq(rows, LAMBDA row : LacksKey(row) /\ mapped_key(row, alias_map) # "")

unknown_rows(rows, alias_map) ==
    SelectSeq(rows, LAMBDA row : LacksKey(row) /\ mapped_key(row, alias_map) = "")

\* the unknown_labels dict as (label, count) pairs in first-occurrence order
unknown_labels_of(rows, alias_map) ==
    LET unknown == unknown_rows(rows, alias_map)
        norms == [i \in DOMAIN unknown |-> _normalize_label(label_raw(unknown[i]))]
        labels == DictKeys(norms, <<>>)
    IN  [i \in DOMAIN labels |->
            [label |-> labels[i],
             count |-> Cardinality({j \in DOMAIN norms : norms[j] = labels[i]})]]

\* the columns of the target tables
table_columns(table_name) ==
    CASE table_name = "clients" -> {"client_code", "name", "email", "budget_band", "rfm_segment",
                                    "tenant_id"}
      [] table_name = "products" -> {"product_key", "name", "family_crm", "price_ttc",
                                     "global_popularity_score", "tenant_id"}
      [] table_name = "sales" -> {"document_id", "product_key", "client_code", "quantity",
                                  "amount", "sale_date", "tenant_id"}
      [] OTHER -> {}

\* the columns of the frame handed to to_sql
final_columns(table_name, columns) ==
    (columns \cup {"tenant_id"} \cup (IF table_name = "sales" THEN {"product_key"} ELSE {}))
        \ (IF Resolves(table_name, columns) THEN {"product_label"} ELSE {})

\* the outcome of the INSERT: a column the table does not have is refused by the
\* database, a row breaking a NOT NULL constraint (products.name) too
insert_error(table_name, columns, rows) ==
    IF ~(final_columns(table_name, columns) \subseteq table_columns(table_name))
    THEN "SQLAlchemyError"
    ELSE IF table_name = "products" /\ \E i \in DOMAIN rows : Cell(rows[i], "name") = ""
    THEN "IntegrityError"
    ELSE ""

\* the rows as inserted: the columns of the file, the tenant, NULL elsewhere
inserted_rows(table_name, rows, alias_map, resolves, tenant_id, first_id) ==
    [i \in DOMAIN rows |->
        CASE table_name = "sales" ->
               Sale(Cell(rows[i], "document_id"),
                    IF resolves THEN mapped_key(rows[i], alias_map)
                    ELSE Cell(rows[i], "product_key"),
                    Cell(rows[i], "client_code"),
                    to_number(Cell(rows[i], "quantity")),
                    to_datetime(Cell(rows[i], "sale_date")),
                    tenant_id) @@ [amount |-> to_number(Cell(rows[i], "amount"))]
          [] table_name = "clients" ->
               Client(first_id + i - 1, Cell(rows[i], "client_code"),
                      Cell(rows[i], "email") # "", FALSE, tenant_id)
                   @@ [name |-> Cell(rows[i], "name")]
          [] table_name = "products" ->
               Product(first_id + i - 1, Cell(rows[i], "product_key"),
                       Cell(rows[i], "family_crm"), to_number(Cell(rows[i], "price_ttc")),
                       "", None, tenant_id)
                   @@ [name |-> Cell(rows[i], "name")] ]

Failure(table_name, csv, tenant_id, error_type, missing) ==
    [op |-> "load_table", table_name |-> table_name, csv |-> csv, tenant_id |-> tenant_id,
     success |-> FALSE, error_type |-> error_type, missing_columns |-> missing,
     rows_initial |-> 0, rows_duplicates |-> 0, rows_loaded |-> 0,
     resolved_aliases |-> 0, unknown_labels |-> <<>>]

\* an INSERT that raises and whose rows stay nevertheless
committed_anyway(db, attempted) == attempted

\* "with engine.begin()" around to_sql: an INSERT that raises is rolled back
rolled_back(db, attempted) == db

\* load_table_with_tenant on the tables db: the dict it returns and the tables
\* after it.  The INSERT runs in one transaction: a refused load inserts nothing.
load_table_with_tenant(table_name, csv, tenant_id, db) ==
    LET missing == missing_cols(table_name, csv.columns)
        subset == dedup_cols(table_name, csv.columns)
        df == IF subset = {} THEN csv.rows ELSE drop_duplicates(csv.rows, subset)
        alias_map == IF table_name = "sales" THEN alias_map_of(tenant_id, db) ELSE <<>>
        resolves == Resolves(table_name, csv.columns)
        error_type == insert_error(table_name, csv.columns, df)
        target == CASE table_name = "sales" -> db.sales
                    [] table_name = "clients" -> db.clients
                    [] table_name = "products" -> db.products
        loaded == target \o inserted_rows(table_name, df, alias_map, resolves, tenant_id,
                                          Len(target) + 1)
        attempted == [clients |-> IF table_name = "clients" THEN loaded ELSE db.clients,
                      products |-> IF table_name = "products" THEN loaded ELSE db.products,
                      sales |-> IF table_name = "sales" THEN loaded ELSE db.sales]
    IN  IF missing # <<>>
        THEN [result |-> Failure(table_name, csv, tenant_id, "MissingColumns", missing), db |-> db]
        ELSE IF error_type # ""
        THEN [result |-> Failure(table_name, csv, tenant_id, error_type, <<>>),
              db |-> rolled_back(db, attempted)]
        ELSE [result |->
                 [op |-> "load_table", table_name |-> table_name, csv |-> csv,
                  tenant_id |-> tenant_id,
                  success |-> TRUE, error_type |-> "", missing_columns |-> <<>>,
                  rows_initial |-> Len(csv.rows),
                  rows_duplicates |-> IF subset = {} THEN 0 ELSE Len(csv.rows) - Len(df),
                  rows_loaded |-> Len(df),
                  resolved_aliases |-> IF resolves THEN Len(resolved_rows(df, alias_map)) ELSE 0,
                  unknown_labels |-> IF resolves THEN unknown_labels_of(df, alias_map)
                                     ELSE <<>>],
              db |-> attempted]

Db == [clients |-> clients, products |-> products, sales |-> sales]

\* the target table of a curated file, by its name: "vente" or "sales", else
\* "client", else "produit" or "product"; "" for a file that is skipped
table_for(filename) ==
    CASE filename \in {"sales_curated.csv", "sales_sales_100_curated.csv",
                       "sales_sales_107_curated.csv", "sales_other_curated.csv"} -> "sales"
      [] filename \in {"clients_curated.csv", "clients_clients_100_curated.csv",
                       "clients_clients_107_curated.csv"} -> "clients"
      [] filename \in {"products_curated.csv", "products_products_100_curated.csv",
                       "products_products_107_curated.csv"} -> "products"
      [] OTHER -> ""

\* results[full_table_name] = result: a second file of the same table replaces
\* the entry of the first, at the first one's position
Put(results, result) ==
    IF \E i \in DOMAIN results : results[i].table_name = result.table_name
    THEN [i \in DOMAIN results |->
             IF results[i].table_name = result.table_name THEN result ELSE results[i]]
    ELSE Append(results, result)

\* the loop over the curated files: the tables after it, the results dict (its
\* values in insertion order) and, per file loaded, the dict that load returned
RECURSIVE LoadFiles(_, _, _, _, _)
LoadFiles(csvs, tenant_id, db, results, loads) ==
    IF csvs = <<>> THEN [db |-> db, results |-> results, loads |-> loads]
    ELSE IF table_for(Head(csvs).name) = ""
    THEN LoadFiles(Tail(csvs), tenant_id, db, results, loads)
    ELSE LET out == load_table_with_tenant(table_for(Head(csvs).name), Head(csvs), tenant_id, db)
         IN  LoadFiles(Tail(csvs), tenant_id, out.db, Put(results, out.result),
                       Append(loads, out.result))

\* load_all_curated_for_tenant over the directory listing csvs: without any file
\* it returns {"error": ..., "tenant_id": ...}, no per-table result
load_all_curated_for_tenant(csvs, tenant_id, db) ==
    IF csvs = <<>>
    THEN [error |-> "No curated files found", db |-> db, results |-> <<>>, loads |-> <<>>]
    ELSE [error |-> ""] @@ LoadFiles(csvs, tenant_id, db, <<>>, <<>>)

\* the merge of the unknown_labels dicts, counts added per label
merged_labels(results) ==
    LET pairs == Concat([i \in DOMAIN results |-> results[i].unknown_labels])
        labels == DictKeys([i \in DOMAIN pairs |-> pairs[i].label], <<>>)
    IN  [i \in DOMAIN labels |->
            [label |-> labels[i],
             count |-> SumSeq([j \in DOMAIN pairs |->
                                  IF pairs[j].label = labels[i] THEN pairs[j].count ELSE 0])]]

\* verify_load over the values of the results dict
verify_load(results) ==
    LET total_failed == Len(SelectSeq(results, LAMBDA r : ~r.success))
    IN  [success |-> total_failed = 0,
         total_success |-> Len(SelectSeq(results, LAMBDA r : r.success)),
         total_failed |-> total_failed,
         total_rows |-> SumSeq([i \in DOMAIN results |-> results[i].rows_loaded]),
         resolved_aliases |-> SumSeq([i \in DOMAIN results |-> results[i].resolved_aliases]),
         unknown_labels |-> merged_labels(results)]

\* a direct call of the loader on one CSV file
LoadTableCall(table_name, csv, tenant_id) ==
    LET out == load_table_with_tenant(table_name, csv, tenant_id, Db) IN
    /\ Len(clients) + Len(products) + Len(sales) < MaxStoredRows
    /\ clients' = out.db.clients
    /\ products' = out.db.products
    /\ sales' = out.db.sales
    /\ etl_result' = out.result
    /\ UNCHANGED <<now, contact_events, reco_runs, execs, outputs, dispatch, campaign_status,
                   ticks, reads, metrics, files, product_alias, ingestion>>

\* a call of load_all_curated_for_tenant on the tenant's curated directory
LoadAllCall(tenant_id) ==
    LET out == load_all_curated_for_tenant(curated_dir, tenant_id, Db) IN
    /\ Len(clients) + Len(products) + Len(sales) < MaxStoredRows
    /\ clients' = out.db.clients
    /\ products' = out.db.products
    /\ sales' = out.db.sales
    /\ etl_result' = [op |-> "load_all", tenant_id |-> tenant_id, error |-> out.error,
                      results |-> out.results, loads |-> out.loads, before |-> Db]
    /\ UNCHANGED <<now, contact_events, reco_runs, execs, outputs, dispatch, campaign_status,
                   ticks, reads, metrics, files, product_alias, ingestion>>

\* the cells a sales export can hold
SalesCells ==
    [document_id : {"D1"}, product_key : {"", "P1"},
     product_label : {"Pinot Noir", " PINOT-NOIR", "Inconnu"}, client_code : {"C1"},
     sale_date : {"2024-01-10"}, quantity : {"2"}, channel : {"web"}]

\* the headers a sales export can have: keyed, labelled, both, keyed without
\* document_id, keyed with a column the table does not have
SalesHeaders ==
    {{"document_id", "product_key", "client_code", "quantity"},
     {"document_id", "product_label", "client_code", "sale_date"},
     {"document_id", "product_key", "product_label", "client_code"},
     {"product_key", "client_code"},
     {"document_id", "product_key", "client_code", "channel"}}

\* every CSV of up to MaxCsvRows rows over these cells and one of the headers
CsvsOver(name, headers, cells) ==
    UNION {{Csv(name, header, [i \in 1..n |-> [c \in header |-> rows[i][c]]]) :
               rows \in [1..n -> cells]} : header \in headers, n \in 1..MaxCsvRows}

SalesCsvs == CsvsOver("sales_curated.csv", SalesHeaders, SalesCells)

ClientsCsvs ==
    CsvsOver("clients_curated.csv", {{"client_code", "name", "email"}, {"name", "email"}},
             [client_code : {"C1"}, name : {"Alice"}, email : {"", "alice@example.com"}])

ProductsCsvs ==
    CsvsOver("products_curated.csv", {{"product_key", "name"}, {"product_key"}},
             [product_key : {"P3"}, name : {"", "Riesling"}])

Alias(label_norm, product_key, tenant_id) ==
    [label_norm |-> label_norm, product_key |-> product_key, tenant_id |-> tenant_id]

\* the products the labels resolve to
NamedProducts ==
    <<Product(1, "P1", "Rouge", 8, "sec", 40, 1) @@ [name |-> "Pinot Noir"],
      Product(2, "P2", "Blanc", 20, "sec", 60, 1) @@ [name |-> "Riesling"],
      Product(3, "P9", "Rouge", 10, "", 50, 2) @@ [name |-> "Inconnu"]>>

AliasTables == {<<>>, <<Alias("inconnu", "P2", 1), Alias("pinot noir", "P9", 2)>>}

\* the files of the curated directories load_all_curated_for_tenant is checked
\* on: one-row files of each table, sound or refused, and a file of no table
CuratedFiles ==
    {c \in SalesCsvs : Len(c.rows) = 1 /\ "product_label" \notin c.columns
                       /\ c.rows[1]["product_key"] = "P1"}
    \cup {c \in ClientsCsvs : Len(c.rows) = 1 /\ c.rows[1]["email"] # ""}
    \cup {c \in ProductsCsvs : Len(c.rows) = 1}
    \cup {Csv("notes.csv", {"text"}, <<[text |-> "n/a"]>>)}

\* the listings: no file, one file, or a file followed by a clients file
CuratedDirs ==
    {<<>>} \cup {<<a>> : a \in CuratedFiles}
    \cup {<<a, b>> : a \in CuratedFiles, b \in {c \in CuratedFiles : table_for(c.name) = "clients"}}

LoadTable ==
    \/ \E csv \in SalesCsvs : LoadTableCall("sales", csv, 1)
    \/ \E csv \in ClientsCsvs : LoadTableCall("clients", csv, 1)
    \/ \E csv \in ProductsCsvs : LoadTableCall("products", csv, 1)

LoadAll == LoadAllCall(1)

\* a store with products and no sale yet, an alias table and a curated directory
LoadStore(aliases, dir) ==
    /\ now = 100
    /\ clients = <<>>
    /\ products = NamedProducts
    /\ sales = <<>>
    /\ contact_events = <<>>
    /\ BlankApp
    /\ raw_dir = <<>> /\ manifest = {} /\ staging_dir = <<>>
    /\ curated_dir = dir
    /\ product_alias = aliases
    /\ etl_result = NoCallYet
    /\ input_dir = <<>> /\ runs_dir = <<>>

InitLoad == \E aliases \in AliasTables : LoadStore(aliases, <<>>)

InitLoadAll == \E aliases \in AliasTables, dir \in CuratedDirs : LoadStore(aliases, dir)

\* ------------------------------------------------- ingest_raw, transform_sales
\* writing a file into a directory: a file of that name is replaced in place
WriteFile(dir, file) ==
    IF \E i \in DOMAIN dir : dir[i].name = file.name
    THEN [i \in DOMAIN dir |-> IF dir[i].name = file.name THEN file ELSE dir[i]]
    ELSE Append(dir, file)

\* f"{file.stem}_{timestamp}.csv", the timestamp being the clock
staging_name(name, timestamp) ==
    CASE name = "clients.csv" /\ timestamp = 100 -> "clients_100.csv"
      [] name = "clients.csv" /\ timestamp = 107 -> "clients_107.csv"
      [] name = "products.csv" /\ timestamp = 100 -> "products_100.csv"
      [] name = "products.csv" /\ timestamp = 107 -> "products_107.csv"
      [] name = "sales.csv" /\ timestamp = 100 -> "sales_100.csv"
      [] name = "sales.csv" /\ timestamp = 107 -> "sales_107.csv"
      [] OTHER -> "other.csv"

\* the dataset transform_sales_file picks from the staging file's name
dataset_of(name) ==
    CASE name \in {"clients_100.csv", "clients_107.csv"} -> "clients"
      [] name \in {"products_100.csv", "products_107.csv"} -> "products"
      [] OTHER -> "sales"

\* f"{dataset}_{staging_file.stem}_curated.csv"
curated_name(name) ==
    CASE name = "clients_100.csv" -> "clients_clients_100_curated.csv"
      [] name = "clients_107.csv" -> "clients_clients_107_curated.csv"
      [] name = "products_100.csv" -> "products_products_100_curated.csv"
      [] name = "products_107.csv" -> "products_products_107_curated.csv"
      [] name = "sales_100.csv" -> "sales_sales_100_curated.csv"
      [] name = "sales_107.csv" -> "sales_sales_107_curated.csv"
      [] OTHER -> "sales_other_curated.csv"

\* ingest_raw_files: every raw file not in the manifest is copied to staging
\* under a time-stamped name and entered in the manifest; the new staging files
RECURSIVE ingest_raw_files(_, _, _, _, _)
ingest_raw_files(raws, processed, staging, new_staging_files, timestamp) ==
    IF raws = <<>>
    THEN [manifest |-> processed, staging_dir |-> staging,
          new_staging_files |-> new_staging_files]
    ELSE IF Head(raws).name \in processed
    THEN ingest_raw_files(Tail(raws), processed, staging, new_staging_files, timestamp)
    ELSE LET copy == [Head(raws) EXCEPT !.name = staging_name(Head(raws).name, timestamp)]
         IN  ingest_raw_files(Tail(raws), processed \cup {Head(raws).name},
                              WriteFile(staging, copy), Append(new_staging_files, copy),
                              timestamp)

\* _normalize_text on a column name or a label: lower case, accents stripped,
\* trimmed (punctuation is kept)
_normalize_text(value) ==
    CASE value = "Client Code" -> "client code"
      [] value = "Pinot Noir" -> "pinot noir"
      [] value = " PINOT-NOIR" -> "pinot-noir"
      [] value = "Riesling" -> "riesling"
      [] value = "Inconnu" -> "inconnu"
      [] OTHER -> value

\* the new name of a column: normalized, blanks and dashes to underscores
standardised(col) ==
    IF _normalize_text(col) = "client code" THEN "client_code" ELSE _normalize_text(col)

\* _standardise_columns on the rows
_standardise_columns(columns, rows) ==
    LET renamed == {standardised(c) : c \in columns}
    IN  [i \in DOMAIN rows |->
            [c \in renamed |-> rows[i][CHOOSE old \in columns : standardised(old) = c]]]

\* the rows cut to the columns expected, a column added holding the default
Select(rows, expected, default) ==
    [i \in DOMAIN rows |->
        [c \in expected |-> IF c \in DOMAIN rows[i] THEN rows[i][c] ELSE default[c]]]

\* str(tenant_id) as written in the tenant_id column
tenant_cell(tenant_id) == IF tenant_id = 1 THEN "1" ELSE "2"

\* str(index) of the row
index_cell(i) == IF i = 1 THEN "0" ELSE IF i = 2 THEN "1" ELSE "2"

\* pd.to_datetime(errors="coerce") then strftime("%Y-%m-%d"): NaN if unparsable
date_cell(cell) == IF to_datetime(cell) = None THEN "" ELSE cell

\* DataFrame.drop_duplicates(subset, keep="first")
drop_duplicates_first(rows, subset) ==
    LET key(i) == [c \in subset |-> rows[i][c]]
    IN  RowsAt(rows, {i \in DOMAIN rows : \A j \in DOMAIN rows : j < i => key(j) # key(i)})

\* _transform_clients, _transform_products, _transform_sales: the curated
\* header and rows, or the ValueError raised for a required column
transform(dataset, columns, raw_rows, tenant_id) ==
    LET cols == {standardised(c) : c \in columns}
        rows == _standardise_columns(columns, raw_rows)
        tenant == [tenant_id |-> tenant_cell(tenant_id)]
    IN  CASE dataset = "clients" ->
               IF ~({"client_code", "name", "email"} \subseteq cols)
               THEN [raised |-> "ValueError", columns |-> {}, rows |-> <<>>]
               ELSE [raised |-> "",
                     columns |-> {"client_code", "name", "email", "tenant_id"},
                     rows |-> Select(rows, {"client_code", "name", "email", "tenant_id"}, tenant)]
          [] dataset = "products" ->
               IF ~({"product_key", "name"} \subseteq cols)
               THEN [raised |-> "ValueError", columns |-> {}, rows |-> <<>>]
               ELSE [raised |-> "",
                     columns |-> {"product_key", "name", "family_crm", "price_ttc", "tenant_id"},
                     rows |-> Select(rows, {"product_key", "name", "family_crm", "price_ttc",
                                            "tenant_id"},
                                     tenant @@ [family_crm |-> "", price_ttc |-> ""])]
          [] dataset = "sales" ->
               IF "client_code" \notin cols
               THEN [raised |-> "ValueError", columns |-> {}, rows |-> <<>>]
               ELSE LET doc_cols == cols \cap {"facture"}
                        derived ==
                            [i \in DOMAIN rows |->
                                [document_id |->
                                     IF "document_id" \in cols THEN rows[i]["document_id"]
                                     ELSE IF doc_cols # {} THEN rows[i]["facture"]
                                     ELSE index_cell(i),
                                 product_key |->
                                     IF "product_key" \in cols THEN rows[i]["product_key"]
                                     ELSE IF "product_label" \in cols
                                     THEN _normalize_text(rows[i]["product_label"])
                                     ELSE "unknown",
                                 client_code |-> rows[i]["client_code"],
                                 quantity |-> IF "quantity" \in cols THEN rows[i]["quantity"]
                                              ELSE "1",
                                 amount |-> IF "amount" \in cols THEN rows[i]["amount"] ELSE "",
                                 sale_date |-> IF "sale_date" \in cols
                                               THEN date_cell(rows[i]["sale_date"]) ELSE "",
                                 tenant_id |-> tenant_cell(tenant_id)]]
                    IN  [raised |-> "",
                         columns |-> {"document_id", "product_key", "client_code", "quantity",
                                      "amount", "sale_date", "tenant_id"},
                         rows |-> drop_duplicates_first(derived, {"document_id", "product_key"})]

\* transform_all_staging_files: a file whose transform raises is skipped
RECURSIVE transform_all_staging_files(_, _, _)
transform_all_staging_files(staging_files, curated, tenant_id) ==
    IF staging_files = <<>> THEN curated
    ELSE LET file == Head(staging_files)
             out == transform(dataset_of(file.name), file.columns, file.rows, tenant_id)
         IN  transform_all_staging_files(
                 Tail(staging_files),
                 IF out.raised # "" THEN curated
                 ELSE WriteFile(curated, Csv(curated_name(file.name), out.columns, out.rows)),
                 tenant_id)

\* ------------------------------------------------------------ main_multi
\* run_etl_for_tenant: ingestion, transformation, load of every file of the
\* curated directory, verification.  verify_load calls .get on the values of
\* the dict the loader returned: on {"error": ..., "tenant_id": ...} these are
\* strings and AttributeError leaves run_etl_for_tenant, which catches nothing.
run_etl_for_tenant(tenant_id) ==
    LET ingested == ingest_raw_files(raw_dir, manifest, staging_dir, <<>>, now)
        curated == transform_all_staging_files(ingested.new_staging_files, curated_dir,
                                               tenant_id)
        loaded == load_all_curated_for_tenant(curated, tenant_id, Db)
        verification == verify_load(loaded.results)
    IN
    /\ Len(clients) + Len(products) + Len(sales) < MaxStoredRows
    /\ manifest' = ingested.manifest
    /\ staging_dir' = ingested.staging_dir
    /\ curated_dir' = curated
    /\ clients' = loaded.db.clients
    /\ products' = loaded.db.products
    /\ sales' = loaded.db.sales
    /\ etl_result' =
          IF loaded.error # ""
          THEN [op |-> "run_etl", tenant_id |-> tenant_id, raised |-> "AttributeError",
                ingested_files |-> ingested.new_staging_files, loads |-> <<>>, before |-> Db]
          ELSE [op |-> "run_etl", tenant_id |-> tenant_id, raised |-> "",
                success |-> verification.success, verification |-> verification,
                ingested_files |-> ingested.new_staging_files,
                load_results |-> loaded.results, loads |-> loaded.loads, before |-> Db]
    /\ UNCHANGED <<now, contact_events, reco_runs, execs, outputs, dispatch, campaign_status,
                   ticks, reads, metrics, raw_dir, product_alias, ingestion>>

RunEtl == run_etl_for_tenant(1)

\* the raw exports: clients (one with a header to standardise, one without
\* e-mail column), products (one with a blank name), sales keyed or labelled
RawFiles ==
    {Csv("clients.csv", {"Client Code", "name", "email"},
         <<[c \in {"Client Code", "name", "email"} |->
               CASE c = "Client Code" -> "C1" [] c = "name" -> "Alice"
                 [] OTHER -> "alice@example.com"]>>),
     Csv("clients.csv", {"client_code", "name"}, <<[client_code |-> "C1", name |-> "Alice"]>>),
     Csv("products.csv", {"product_key", "name"}, <<[product_key |-> "P3", name |-> "Riesling"]>>),
     Csv("products.csv", {"product_key", "name"}, <<[product_key |-> "P3", name |-> ""]>>),
     Csv("sales.csv", {"document_id", "product_key", "client_code", "sale_date"},
         <<[document_id |-> "D1", product_key |-> "P1", client_code |-> "C1",
            sale_date |-> "2024-01-10"],
           [document_id |-> "D1", product_key |-> "P1", client_code |-> "C1",
            sale_date |-> "n/a"]>>),
     Csv("sales.csv", {"facture", "product_label", "client_code"},
         <<[facture |-> "D2", product_label |-> " PINOT-NOIR", client_code |-> "C1"]>>)}

\* a new export arrives in the raw directory
DropRaw ==
    \E file \in RawFiles :
        /\ Len(raw_dir) < MaxRawFiles
        /\ \A i \in DOMAIN raw_dir : raw_dir[i].name # file.name
        /\ raw_dir' = Append(raw_dir, file)
        /\ UNCHANGED <<now, store, contact_events, reco_runs, execs, outputs, dispatch,
                       campaign_status, ticks, reads, metrics, manifest, staging_dir,
                       curated_dir, product_alias, etl_result, ingestion>>

\* the tenant before its first pipeline run: products in the store, the
\* directories empty
InitEtl ==
    /\ now = 100
    /\ clients = <<>>
    /\ products = NamedProducts
    /\ sales = <<>>
    /\ contact_events = <<>>
    /\ Blank

\* ----------------------------------------------------------- ingest_runner
REQUIRED_COLUMNS(table) ==
    CASE table = "clients" -> <<"client_code", "email">>
      [] table = "products" -> <<"product_key", "name">>
      [] table = "sales" -> <<"document_id", "product_key", "client_code", "quantity", "amount",
                              "sale_date">>
      [] OTHER -> <<>>

OPTIONAL_COLUMNS(table) ==
    CASE table = "clients" -> <<"budget_band", "rfm_segment">>
      [] table = "products" -> <<"family_crm", "price_ttc", "global_popularity_score">>
      [] table = "sales" -> <<"currency", "channel">>
      [] OTHER -> <<>>

\* Path(name).stem
stem(name) ==
    CASE name = "clients.csv" -> "clients"
      [] name = "products.csv" -> "products"
      [] name = "sales.csv" -> "sales"
      [] OTHER -> "other"

\* f"{table_name}_curated.csv"
curated_file_name(table) ==
    CASE table = "clients" -> "clients_curated.csv"
      [] table = "products" -> "products_curated.csv"
      [] table = "sales" -> "sales_curated.csv"
      [] OTHER -> "other_curated.csv"

\* c.strip().lower() on a column name
lower_column(col) ==
    CASE col = " Client_Code" -> "client_code"
      [] col = "Email" -> "email"
      [] OTHER -> col

\* astype(str).str.strip() on a cell of a text column: a blank cell reads "nan"
stripped(cell) ==
    CASE cell = "" -> "nan"
      [] cell = " C1 " -> "C1"
      [] OTHER -> cell

\* the columns pandas reads as numbers, left as they are
NumericColumns == {"quantity", "amount", "price_ttc", "global_popularity_score"}

_normalize_dataframe(file) ==
    LET columns == {lower_column(c) : c \in file.columns}
    IN  [columns |-> columns,
         rows |-> [i \in DOMAIN file.rows |->
                      [c \in columns |->
                          LET cell == file.rows[i][CHOOSE old \in file.columns :
                                                       lower_column(old) = c]
                          IN  IF c \in NumericColumns THEN cell ELSE stripped(cell)]]]

\* _validate_contract: one error per required column absent, one warning per
\* optional column absent
_validate_contract(table, columns) ==
    [errors |-> [i \in DOMAIN SelectSeq(REQUIRED_COLUMNS(table), LAMBDA c : c \notin columns) |->
                    [table |-> table,
                     column |-> SelectSeq(REQUIRED_COLUMNS(table),
                                          LAMBDA c : c \notin columns)[i]]],
     warnings |-> [i \in DOMAIN SelectSeq(OPTIONAL_COLUMNS(table), LAMBDA c : c \notin columns) |->
                      [table |-> table,
                       column |-> SelectSeq(OPTIONAL_COLUMNS(table),
                                            LAMBDA c : c \notin columns)[i]]]]

\* SHA-256 of the file's bytes: a digest of the content, whatever the path
_hash_file(file) == <<"sha256", file.columns, file.rows>>

\* a version hashed over the paths of the raw copies, run directory included
dataset_version_of_paths(raw_files, run_id) ==
    <<"sha256", [i \in DOMAIN raw_files |-> <<run_id, raw_files[i].name>>]>>

\* SHA-256 of "name:hash|name:hash|..." over the raw files in listing order
dataset_version_of(raw_files, run_id) ==
    <<"sha256", [i \in DOMAIN raw_files |-> <<raw_files[i].name, _hash_file(raw_files[i])>>]>>

\* _copy_raw into the raw directory of the run: a file already there is an error
RECURSIVE _copy_raw(_, _)
_copy_raw(inputs, raw) ==
    IF inputs = <<>> THEN [raised |-> "", raw |-> raw]
    ELSE IF \E i \in DOMAIN raw : raw[i].name = Head(inputs).name
    THEN [raised |-> "FileExistsError", raw |-> raw]
    ELSE _copy_raw(Tail(inputs), Append(raw, Head(inputs)))

\* run_ingestion: the run directory written and the report returned
run_ingestion(inputs, tenant_id, run_id) ==
    LET copied == _copy_raw(inputs, <<>>)
        raw_files == copied.raw
        frames == [i \in DOMAIN raw_files |-> _normalize_dataframe(raw_files[i])]
        tables == [i \in DOMAIN raw_files |-> stem(raw_files[i].name)]
        checks == [i \in DOMAIN raw_files |-> _validate_contract(tables[i], frames[i].columns)]
    IN  [run_id |-> run_id,
         tenant_id |-> tenant_id,
         raised |-> copied.raised,
         raw |-> raw_files,
         staging |-> [i \in DOMAIN raw_files |->
                         Csv(raw_files[i].name, frames[i].columns, frames[i].rows)],
         curated |-> [i \in DOMAIN raw_files |->
                         Csv(curated_file_name(tables[i]), frames[i].columns, frames[i].rows)],
         dataset_version |-> dataset_version_of(raw_files, run_id),
         errors |-> Concat([i \in DOMAIN raw_files |-> checks[i].errors]),
         warnings |-> Concat([i \in DOMAIN raw_files |-> checks[i].warnings]),
         rows |-> [i \in DOMAIN raw_files |->
                      [table |-> tables[i], count |-> Len(frames[i].rows)]]]

\* ingest_from_dir on the source directory, under a fresh run_id
RunIngestion ==
    /\ Len(runs_dir) < MaxIngestRuns
    /\ runs_dir' = Append(runs_dir, run_ingestion(input_dir, 1, Len(runs_dir) + 1))
    /\ UNCHANGED <<now, store, contact_events, reco_runs, execs, outputs, dispatch,
                   campaign_status, ticks, reads, metrics, files, product_alias, etl_result,
                   input_dir>>

\* the exports: clients with a header to normalize or without e-mail column,
\* products, sales keyed or only labelled
Exports ==
    {Csv("clients.csv", {" Client_Code", "Email"},
         <<[c \in {" Client_Code", "Email"} |->
               IF c = "Email" THEN "alice@example.com" ELSE " C1 "]>>),
     Csv("clients.csv", {"client_code", "name"}, <<[client_code |-> "C1", name |-> "Alice"]>>),
     Csv("products.csv", {"product_key", "name"}, <<[product_key |-> "P3", name |-> "Riesling"]>>),
     Csv("sales.csv",
         {"document_id", "product_key", "client_code", "quantity", "amount", "sale_date"},
         <<[document_id |-> "D1", product_key |-> "P1", client_code |-> "C1", quantity |-> "2",
            amount |-> "300", sale_date |-> "2024-01-10"]>>),
     Csv("sales.csv",
         {"document_id", "product_label", "client_code", "quantity", "amount", "sale_date"},
         <<[document_id |-> "D1", product_label |-> "Pinot Noir", client_code |-> "C1",
            quantity |-> "2", amount |-> "", sale_date |-> "2024-01-10"]>>)}

\* the listings of a source directory: no export, one, or a clients export
\* followed by one of another name
SourceDirs ==
    {<<>>} \cup {<<a>> : a \in Exports}
    \cup {<<pair[1], pair[2]>> :
              pair \in {p \in Exports \X Exports :
                           p[1].name = "clients.csv" /\ p[2].name # "clients.csv"}}

\* the content of the source directory is replaced
PutInput ==
    \E dir \in SourceDirs :
        /\ dir # input_dir
        /\ input_dir' = dir
        /\ UNCHANGED <<now, store, contact_events, reco_runs, execs, outputs, dispatch,
                       campaign_status, ticks, reads, metrics, files, product_alias, etl_result,
                       runs_dir>>

\* the loader is handed a curated file of a run
LoadCurated ==
    \E r \in DOMAIN runs_dir : \E i \in DOMAIN runs_dir[r].curated :
        /\ table_for(runs_dir[r].curated[i].name) # ""
        /\ LoadTableCall(table_for(runs_dir[r].curated[i].name), runs_dir[r].curated[i], 1)

InitIngest ==
    \E dir \in SourceDirs :
        /\ now = 100
        /\ clients = <<>>
        /\ products = NamedProducts
        /\ sales = <<>>
        /\ contact_events = <<>>
        /\ BlankApp
        /\ raw_dir = <<>> /\ manifest = {} /\ staging_dir = <<>> /\ curated_dir = <<>>
        /\ product_alias = <<>>
        /\ etl_result = NoCallYet
        /\ input_dir = dir
        /\ runs_dir = <<>>

\* -------------------------------------------------------- scenario_service
\* ScenarioService.SCENARIOS, in the order the scores dict is filled
SCENARIOS == <<"WINBACK", "REBUY", "CROSS_SELL", "UPSELL", "NURTURE">>

Weights(recency, monetary, coverage, families, aroma_conf) ==
    [recency |-> recency, monetary |-> monetary, coverage |-> coverage,
     families |-> families, aroma_conf |-> aroma_conf]

\* the default weights of ScenarioService.__init__
default_weights(scen) ==
    CASE scen = "WINBACK" -> Weights(3, 2, 0, 0, 1)
      [] scen = "REBUY" -> Weights(0 - 1, 1, 1, 0, 1)
      [] scen = "CROSS_SELL" -> Weights(0 - 1, 1, 3, 2, 1)
      [] scen = "UPSELL" -> Weights(0 - 1, 2, 1, 0, 2)
      [] scen = "NURTURE" -> Weights(1, 1, 1, 0, 1)

\* sum(shares[:2]) of json.loads(preferred_families), in thirtieths; 0.0 for
\* NULL and for a text that is not JSON (the comma-joined family names)
coverage_of(preferred_families) ==
    CASE preferred_families = "[{\"family\": \"Rouge\", \"share\": 0.6}]" -> 18
      [] preferred_families = "Rouge,Blanc" -> 0
      [] OTHER -> 0

\* int(client.cluster), 0 for NULL and for a tag that is no number
num_families_of(cluster) ==
    CASE cluster = "2" -> 2
      [] cluster = "c1" -> 0
      [] OTHER -> 0

\* json.loads(aroma_profile).get("confidence", 0.0), in thirtieths
aroma_conf_of(aroma_profile) ==
    CASE aroma_profile = "{\"confidence\": 0.5}" -> 15
      [] OTHER -> 0

\* x or 0.0
Or0(x) == IF x = None THEN 0 ELSE x

\* the score of one scenario, in thirtieths
scenario_score(client, scen) ==
    LET w == default_weights(scen)
    IN  w.recency * Or0(client.recency) * 30
        + w.monetary * Or0(client.monetary) * 30
        + w.coverage * coverage_of(client.preferred_families)
        + w.families * (30 \div (1 + num_families_of(client.cluster)))
        + w.aroma_conf * aroma_conf_of(client.aroma_profile)

\* max(scenario_scores, key=scenario_scores.get): the first scenario, in the
\* order of SCENARIOS, whose score no other exceeds
decide(client) ==
    SCENARIOS[CHOOSE i \in DOMAIN SCENARIOS :
                  /\ \A j \in DOMAIN SCENARIOS :
                        scenario_score(client, SCENARIOS[j]) <= scenario_score(client, SCENARIOS[i])
                  /\ \A j \in 1..(i - 1) :
                        scenario_score(client, SCENARIOS[j]) < scenario_score(client, SCENARIOS[i])]

\* str.lower() on a scenario name
lower(scenario) ==
    CASE scenario = "WINBACK" -> "winback"
      [] scenario = "REBUY" -> "rebuy"
      [] scenario = "CROSS_SELL" -> "cross_sell"
      [] scenario = "UPSELL" -> "upsell"
      [] scenario = "NURTURE" -> "nurture"
      [] OTHER -> scenario

\* the heuristics of _select_scenario's except branch
rule_based_scenario(client, t_now) ==
    IF client.rfm_score = None \/ client.rfm_score = 0 THEN "nurture"
    ELSE IF client.last_purchase_date # None /\ t_now - client.last_purchase_date > 180
    THEN "winback"
    ELSE IF client.last_purchase_date # None /\ t_now - client.last_purchase_date > 30
    THEN "rebuy"
    ELSE IF client.budget_band = "Low" THEN "upsell"
    ELSE "cross_sell"

\* _select_scenario: ScenarioService().decide(client).scenario.lower()
_select_scenario(client, t_now) == lower(decide(client))

\* the scenario is selected for a client of the store; the answer holds the
\* client and, next to the scenario selected, the one the heuristics give
SelectScenario ==
    \E i \in DOMAIN clients :
        /\ response' = [user_id |-> 0, tenant_id |-> clients[i].tenant_id,
                        path |-> "_select_scenario", key |-> clients[i].client_code,
                        status |-> 200,
                        rows |-> <<[client |-> clients[i],
                                    scenario |-> _select_scenario(clients[i], now),
                                    rule_based |-> rule_based_scenario(clients[i], now)]>>]
        /\ UNCHANGED <<now, store, contact_events, reco_runs, execs, outputs, dispatch,
                       campaign_status, ticks, metrics, etl>>

\* the derived columns of a client: never computed, computed without any sale,
\* or computed by recompute_client_metrics at day 300 from one order
ClientMetrics ==
    {[rfm_score |-> None, last_purchase_date |-> None, recency |-> None, monetary |-> None],
     [rfm_score |-> 111, last_purchase_date |-> None, recency |-> None, monetary |-> 0]}
    \cup {[rfm_score |-> _recency_score(300 - d) * 100 + 10 + _monetary_score(m),
           last_purchase_date |-> d, recency |-> 300 - d, monetary |-> m] :
             d \in {100, 240, 290}, m \in {100, 2500}}

\* the preference columns of a client
ClientPreferences ==
    [budget_band : {"", "Low", "High"},
     preferred_families : {"", "Rouge,Blanc", "[{\"family\": \"Rouge\", \"share\": 0.6}]"},
     cluster : {"", "c1", "2"},
     aroma_profile : {"", "{\"confidence\": 0.5}"}]

\* one client of tenant 1 with its derived columns, at day 300
InitScenario ==
    \E m \in ClientMetrics, p \in ClientPreferences :
        /\ now = 300
        /\ clients = <<Client(1, "C1", TRUE, FALSE, 1) @@ m @@ p>>
        /\ products = <<>>
        /\ sales = <<>>
        /\ contact_events = <<>>
        /\ Blank

\* --------------------------------- the stores the candidate rules are run on
\* the catalogues of tenant 1: three priced wines of one family; two wines of
\* two families; a wine without price; a wine withdrawn from sale
CatalogueNames == {"premium", "flat", "unpriced", "retired"}

CatalogProducts(catalogue) ==
    (CASE catalogue = "premium" ->
            <<Product(1, "P1", "Rouge", 12, "sec", 40, 1),
              Product(2, "P2", "Rouge", 15, "sec", 60, 1),
              Product(3, "P3", "Rouge", 25, "sec", 80, 1)>>
       [] catalogue = "flat" ->
            <<Product(1, "P1", "Rouge", 12, "sec", 40, 1),
              Product(2, "P2", "Blanc", 15, "sec", 60, 1)>>
       [] catalogue = "unpriced" ->
            <<Product(1, "P1", "Rouge", 20, "sec", 40, 1),
              Product(2, "P2", "Rouge", 15, "sec", 60, 1),
              Product(3, "P4", "Rouge", None, "sec", 20, 1)>>
       [] catalogue = "retired" ->
            <<Product(1, "P1", "Rouge", 12, "sec", 40, 1),
              [Product(2, "P5", "Rouge", 30, "sec", 90, 1) EXCEPT !.is_active = FALSE],
              [Product(3, "P6", "Blanc", 10, "sec", 70, 1) EXCEPT !.is_archived = TRUE]>>)
    \o <<Product(9, "P1", "Blanc", 10, "", 50, 2)>>

\* the purchases of client C1: none, P1 long ago, P1 lately, P1 long ago and
\* lately, P1 and P4 long ago
PurchaseNames == {"none", "old", "recent", "again", "pair"}

CatalogSales(history, today) ==
    CASE history = "old" -> <<Sale("D1", "P1", "C1", 1, today - 60, 1)>>
      [] history = "recent" -> <<Sale("D1", "P1", "C1", 1, today - 10, 1)>>
      [] history = "again" -> <<Sale("D1", "P1", "C1", 1, today - 60, 1),
                                Sale("D2", "P1", "C1", 2, today - 10, 1)>>
      [] history = "pair" -> <<Sale("D1", "P1", "C1", 1, today - 60, 1),
                               Sale("D1", "P4", "C1", 1, today - 60, 1)>>
      [] OTHER -> <<>>

\* two clients of tenant 1, the first one with the purchases, and one of tenant 2
InitCatalog ==
    \E catalogue \in CatalogueNames, history \in PurchaseNames :
        /\ now = 100
        /\ clients = ClientsOf(2, "none")
        /\ products = CatalogProducts(catalogue)
        /\ sales = CatalogSales(history, 100)
        /\ contact_events = <<>>
        /\ Blank

\* ------------------------------------------------------------ routers/sales
\* the highest id the write paths give a sale row
MaxApiSales == 2

_accessible_products_query(current_user) ==
    LET query == TenantRows(products, current_user.tenant_id)
    IN  IF current_user.is_superuser THEN query
        ELSE SelectSeq(query, LAMBDA prod : Visible(prod, current_user))

\* the rows .first() is taken from; a NULL or empty code matches no row
_get_accessible_client(current_user, client_code) ==
    SelectSeq(_accessible_clients_query(current_user),
              LAMBDA c : c.client_code = client_code /\ client_code # "")

_get_accessible_product(current_user, product_key) ==
    SelectSeq(_accessible_products_query(current_user),
              LAMBDA prod : prod.product_key = product_key /\ product_key # "")

\* the primary key of a new sale row: one above the highest id of the table
new_sale_id == 1 + MaxOf({0} \cup {sales[i].id : i \in DOMAIN sales})

\* Sale.tenant_id == current_user.tenant_id, Sale.id == sale_id
sale_of(current_user, sale_id) ==
    SelectSeq(sales, LAMBDA s : s.tenant_id = current_user.tenant_id /\ s.id = sale_id)

\* the client columns after recompute_client_metrics on the committed sale rows
recomputed(rfm, rows, tenant_id, client_code) ==
    LET ids == FirstClient(tenant_id, client_code)
    IN  [id \in DOMAIN rfm \cup ids |->
            IF id \in ids THEN recomputed_columns(rows, now, tenant_id, client_code)
            ELSE rfm[id]]

\* the answer of a write path: the caller, the handler, the client_code of the
\* sale before the call, the HTTP status and the sale returned
Written(current_user, path, key, status, rows) ==
    response' = [user_id |-> current_user.id, tenant_id |-> current_user.tenant_id,
                 path |-> path, key |-> key, status |-> status, rows |-> rows]

\* POST /sales/
create_sale(current_user, sale_in) ==
    LET sale == Sale(sale_in.document_id, sale_in.product_key, sale_in.client_code,
                     sale_in.quantity, sale_in.sale_date, current_user.tenant_id)
                @@ [id |-> new_sale_id, amount |-> sale_in.amount]
    IN
    /\ new_sale_id <= MaxApiSales
    /\ IF _get_accessible_client(current_user, sale_in.client_code) = <<>>
          \/ _get_accessible_product(current_user, sale_in.product_key) = <<>>
       THEN /\ Written(current_user, "create_sale", sale_in.client_code, 404, <<>>)
            /\ UNCHANGED <<sales, client_rfm>>
       ELSE /\ sales' = Append(sales, sale)
            /\ client_rfm' = recomputed(client_rfm, Append(sales, sale),
                                        current_user.tenant_id, sale.client_code)
            /\ Written(current_user, "create_sale", sale_in.client_code, 201, <<sale>>)
    /\ UNCHANGED <<now, clients, products, contact_events, reco_runs, execs, outputs, dispatch,
                   campaign_status, ticks, etl>>

\* for field, value in update_data.items(): setattr(sale, field, value)
updated(sale, update_data) ==
    [f \in DOMAIN sale |-> IF f \in DOMAIN update_data THEN update_data[f] ELSE sale[f]]

\* PUT /sales/{sale_id}; update_data holds the fields the body sets, a field set
\* to null included.  recompute_client_metrics raises ValueError when the sale
\* is left without the code of a client, after the commit: status 500
update_sale(current_user, sale_id, update_data) ==
    LET found == sale_of(current_user, sale_id)
        sale == found[1]
        old_client_code == sale.client_code
        unknown_client == /\ "client_code" \in DOMAIN update_data
                          /\ update_data.client_code # ""
                          /\ _get_accessible_client(current_user, update_data.client_code) = <<>>
        unknown_product == /\ "product_key" \in DOMAIN update_data
                           /\ update_data.product_key # ""
                           /\ _get_accessible_product(current_user,
                                                      update_data.product_key) = <<>>
        after == updated(sale, update_data)
        rows == [i \in DOMAIN sales |-> IF sales[i] = sale THEN after ELSE sales[i]]
        first == IF old_client_code # after.client_code
                 THEN recomputed(client_rfm, rows, current_user.tenant_id, old_client_code)
                 ELSE client_rfm
    IN
    /\ IF found = <<>>
       THEN /\ Written(current_user, "update_sale", "", 404, <<>>)
            /\ UNCHANGED <<sales, client_rfm>>
       ELSE IF _get_accessible_client(current_user, old_client_code) = <<>>
               \/ unknown_client \/ unknown_product
       THEN /\ Written(current_user, "update_sale", old_client_code, 404, <<>>)
            /\ UNCHANGED <<sales, client_rfm>>
       ELSE /\ sales' = rows
            /\ client_rfm' = recomputed(first, rows, current_user.tenant_id, after.client_code)
            /\ Written(current_user, "update_sale", old_client_code,
                       IF FirstClient(current_user.tenant_id, after.client_code) = {}
                       THEN 500 ELSE 200,
                       <<after>>)
    /\ UNCHANGED <<now, clients, products, contact_events, reco_runs, execs, outputs, dispatch,
                   campaign_status, ticks, etl>>

\* DELETE /sales/{sale_id}
delete_sale(current_user, sale_id) ==
    LET found == sale_of(current_user, sale_id)
        sale == found[1]
        rows == SelectSeq(sales, LAMBDA s : s # sale)
    IN
    /\ IF found = <<>>
       THEN /\ Written(current_user, "delete_sale", "", 404, <<>>)
            /\ UNCHANGED <<sales, client_rfm>>
       ELSE IF _get_accessible_client(current_user, sale.client_code) = <<>>
       THEN /\ Written(current_user, "delete_sale", sale.client_code, 404, <<>>)
            /\ UNCHANGED <<sales, client_rfm>>
       ELSE /\ sales' = rows
            /\ client_rfm' = recomputed(client_rfm, rows, current_user.tenant_id,
                                        sale.client_code)
            /\ Written(current_user, "delete_sale", sale.client_code, 204, <<>>)
    /\ UNCHANGED <<now, clients, products, contact_events, reco_runs, execs, outputs, dispatch,
                   campaign_status, ticks, etl>>

\* ---------------------------------------------------------- routers/clients
\* DELETE /clients/{client_code}: the row goes, with the columns it carried
delete_client(current_user, client_code) ==
    LET found == SelectSeq(_accessible_clients_query(current_user),
                           LAMBDA c : c.client_code = client_code)
        client == found[1]
    IN
    /\ IF found = <<>>
       THEN /\ Written(current_user, "delete_client", client_code, 404, <<>>)
            /\ UNCHANGED <<clients, client_rfm>>
       ELSE /\ clients' = SelectSeq(clients, LAMBDA c : c # client)
            /\ client_rfm' = [id \in DOMAIN client_rfm \ {client.id} |-> client_rfm[id]]
            /\ Written(current_user, "delete_client", client_code, 200, <<>>)
    /\ UNCHANGED <<now, products, sales, contact_events, reco_runs, execs, outputs, dispatch,
                   campaign_status, ticks, etl>>

\* ------------------------------------------------------- preference_service
\* counts.get(prod.product_key, 0) / total_sales, kept as a fraction
popularity_of(tenant_sales, product_key) ==
    <<Len(SelectSeq(tenant_sales, LAMBDA s : s.product_key = product_key)), Len(tenant_sales)>>

\* compute_products_popularity: nothing is written when the tenant has no sale
compute_products_popularity(tenant_id) ==
    LET tenant_sales == TenantRows(sales, tenant_id)
    IN
    /\ products' = IF tenant_sales = <<>> THEN products
                   ELSE [i \in DOMAIN products |->
                            IF products[i].tenant_id = tenant_id
                            THEN [products[i] EXCEPT !.global_popularity_score =
                                      popularity_of(tenant_sales, products[i].product_key)]
                            ELSE products[i]]
    /\ response' = [user_id |-> 0, tenant_id |-> tenant_id,
                    path |-> "compute_products_popularity", key |-> "", status |-> 200,
                    rows |-> <<>>]
    /\ UNCHANGED <<now, clients, sales, contact_events, reco_runs, execs, outputs, dispatch,
                   campaign_status, ticks, metrics, etl>>

\* the callers of the write paths: a user of tenant 1 and a user of tenant 2
Writers == {User(1, 1, FALSE), User(3, 2, FALSE)}

\* the bodies of POST /sales/: document_id, product_key and client_code are
\* required strings; the sale is of today
SaleCreates ==
    [document_id : {"D1", "D2"}, product_key : {"P1", "P9"}, client_code : {"C1"},
     quantity : {1}, amount : {100}, sale_date : {100}]

\* the bodies of PUT /sales/{sale_id}, as model_dump(exclude_unset=True) gives them
SaleUpdates ==
    {[f \in {"document_id"} |-> ""],
     [f \in {"client_code"} |-> "C2"],
     [f \in {"client_code"} |-> ""],
     [f \in {"amount"} |-> 250]}

CreateSale == \E current_user \in Writers, sale_in \in SaleCreates : create_sale(current_user, sale_in)

UpdateSale ==
    \E current_user \in Writers, sale_id \in 1..MaxApiSales, update_data \in SaleUpdates :
        update_sale(current_user, sale_id, update_data)

DeleteSale ==
    \E current_user \in Writers, sale_id \in 1..MaxApiSales : delete_sale(current_user, sale_id)

DeleteClient ==
    \E current_user \in Writers, client_code \in {"C1", "C2"} :
        delete_client(current_user, client_code)

ComputePopularity == \E tenant_id \in Tenants : compute_products_popularity(tenant_id)

\* clients C1 and C2 of tenant 1 and C1 of tenant 2, visible to their tenant;
\* products P1 and P2 of tenant 1 and P1 of tenant 2, their popularity at the
\* column's default 0.0; no sale yet
InitApi ==
    /\ now = 100
    /\ clients = [i \in 1..3 |->
                     Owned(ClientsOf(2, "none")[i], None, "tenant")]
    /\ products = [i \in 1..3 |->
                      [Owned(ProductsOf("basic")[i], None, "tenant")
                          EXCEPT !.global_popularity_score = <<0, 1>>]]
    /\ sales = <<>>
    /\ contact_events = <<>>
    /\ Blank

RunStarts ==
    \E tenant_id \in Tenants, top_n \in TopNs, silence_window_days \in Silences :
        RunStart(tenant_id, top_n, silence_window_days)

RunCleans == \E r \in DOMAIN reco_runs : RunClean(r)

RunFinishes == \E r \in DOMAIN reco_runs : RunFinish(r)

RunAborts == \E r \in DOMAIN reco_runs : RunAbort(r)

\* POST /reco/run with its default parameters
RunDefaults == \E tenant_id \in Tenants : RunStart(tenant_id, 5, 7)

Next ==
    \/ RunStarts
    \/ RunCleans
    \/ RunFinishes
    \/ RunAborts
    \/ SendCampaign
    \/ AdvanceClock

Spec == Init /\ [][Next]_vars

NextDispatch ==
    \/ RunDefaults
    \/ RunCleans
    \/ RunFinishes
    \/ SendBatch

SpecDispatch == InitDispatch /\ [][NextDispatch]_vars

NextReads ==
    \/ RunDefaults
    \/ RunCleans
    \/ RunFinishes
    \/ ListClients
    \/ GetClient
    \/ ListProducts
    \/ GetProduct
    \/ ListRecommendations
    \/ ExportRun

SpecReads == InitReads /\ [][NextReads]_vars

NextRfm == ComputeRfm \/ RecomputeClient

SpecRfm == InitRfm /\ [][NextRfm]_vars

NextLoad == LoadTable

SpecLoad == InitLoad /\ [][NextLoad]_vars

NextLoadAll == LoadAll

SpecLoadAll == InitLoadAll /\ [][NextLoadAll]_vars

NextEtl == DropRaw \/ RunEtl \/ AdvanceClock

SpecEtl == InitEtl /\ [][NextEtl]_vars

NextIngest == PutInput \/ RunIngestion \/ LoadCurated

SpecIngest == InitIngest /\ [][NextIngest]_vars

NextScenario == SelectScenario

SpecScenario == InitScenario /\ [][NextScenario]_vars

NextCatalog ==
    \/ RunStarts
    \/ RunCleans
    \/ RunFinishes
    \/ RunAborts
    \/ AdvanceClock

SpecCatalog == InitCatalog /\ [][NextCatalog]_vars
NextSales == CreateSale \/ UpdateSale \/ DeleteSale
SpecSales == InitApi /\ [][NextSales]_vars
NextApi == CreateSale \/ DeleteSale \/ DeleteClient \/ ComputePopularity
SpecApi == InitApi /\ [][NextApi]_vars

\* ------------------------------------------------------------------ claims

\* C1: for every run that completed, the gate_export stored in its summary
\* equals (n_errors = 0 and audit_score >= 80) of the same summary.
C1_GateExportIsErrorsAndScore ==
    \A i \in DOMAIN run_summary :
        LET summary == run_summary[i].summary
        IN  summary.gate_export
               <=> (summary.n_errors = 0 /\ summary.audit_score >= EligibleScoreMin)

\* C2: for every next_action_output row, eligible is true if and only if the
\* audit of that client wrote no ERROR issue in that run and the row's
\* audit_score is at least 80.
C2_EligibleIffNoErrorAndScore ==
    \A i \in DOMAIN next_action :
        LET row == next_action[i]
            errors == {j \in DOMAIN audit_output :
                          /\ audit_output[j].run_id = row.run_id
                          /\ audit_output[j].client_id = row.client_id
                          /\ audit_output[j].severity = "ERROR"}
        IN  row.eligible <=> (errors = {} /\ row.audit_score >= EligibleScoreMin)

\* one run wrote a row that is eligible although the audit warned (score below
\* 100) and a row that is refused for an ERROR issue
C2_Witness ==
    \E i, j \in DOMAIN next_action :
        /\ next_action[i].run_id = next_action[j].run_id
        /\ next_action[i].eligible /\ next_action[i].audit_score < 100
        /\ ~next_action[j].eligible
        /\ \E a \in DOMAIN audit_output :
              /\ audit_output[a].run_id = next_action[j].run_id
              /\ audit_output[a].client_id = next_action[j].client_id
              /\ audit_output[a].severity = "ERROR"

\* C3: a send_batch call for a run whose summary is missing or whose gate_export
\* is false fails with an error and writes no dispatch log, no contact record
\* and makes no call on the external client.
C3_ClosedGateRefusesBatch ==
    [][ (last' # last /\ ~GateOpen(last'.tenant_id, last'.run_id))
           => /\ last'.result # "ok"
              /\ UNCHANGED <<brevo_logs, contact_history, contact_events, brevo_calls>> ]_vars

\* send_batch was refused for a run whose summary exists with gate_export false
\* although the run has eligible clients
C3_Witness ==
    /\ last.result = "gating_disabled"
    /\ \E i \in DOMAIN run_summary :
          /\ run_summary[i].run_id = last.run_id
          /\ run_summary[i].tenant_id = last.tenant_id
          /\ ~run_summary[i].summary.gate_export
    /\ EligibleRows(last.tenant_id, last.run_id) # <<>>
    /\ brevo_logs = <<>> /\ contact_history = <<>> /\ brevo_calls = <<>>

\* C4: a run never mutates prior runs: the reco_runs row of every completed
\* run, and every reco_output, audit_output, next_action_output, run_summary
\* and reco_items row of it, is still there, unchanged, after any step of
\* generate_recommendations_run.
C4_PriorRunsUntouched ==
    [][ \A r \in DOMAIN reco_runs :
           execs[r].pc = "completed" =>
              /\ reco_runs'[r] = reco_runs[r]
              /\ {row \in Range(reco_output) : row.run_id = r} \subseteq Range(reco_output')
              /\ {row \in Range(audit_output) : row.run_id = r} \subseteq Range(audit_output')
              /\ {row \in Range(next_action) : row.run_id = r} \subseteq Range(next_action')
              /\ {row \in Range(run_summary) : row.run_id = r} \subseteq Range(run_summary')
              /\ {row \in Range(reco_items) : row.run_id = r} \subseteq Range(reco_items') ]_vars

\* C5: a run whose generate_recommendations_run failed after the run row was
\* created has status failed: it is neither left running nor completed.
C5_FailedRunIsMarkedFailed ==
    \A r \in DOMAIN reco_runs :
        execs[r].pc = "crashed" => reco_runs[r].status = "failed"

\* C6: the reco_output rows of one (run_id, tenant, customer_code) carry the
\* ranks 1..k, each once, and pairwise distinct product_keys.
C6_RanksContiguousKeysDistinct ==
    \A i \in DOMAIN reco_output :
        LET group == {j \in DOMAIN reco_output :
                         /\ reco_output[j].run_id = reco_output[i].run_id
                         /\ reco_output[j].tenant_id = reco_output[i].tenant_id
                         /\ reco_output[j].customer_code = reco_output[i].customer_code}
        IN  /\ {reco_output[j].rank : j \in group} = 1..Cardinality(group)
            /\ \A j, k \in group :
                  j # k => reco_output[j].product_key # reco_output[k].product_key

\* C7: a run writes at most top_n recommendations for each client.
C7_AtMostTopN ==
    \A r \in DOMAIN reco_runs :
        \A c \in DOMAIN clients :
            Cardinality({i \in DOMAIN reco_items :
                            /\ reco_items[i].run_id = r
                            /\ reco_items[i].client_id = clients[c].id}) <= execs[r].top_n

\* C8: a send_batch call with the dry-run flag set (given, or by default from
\* the environment) or in preview mode makes no call on the external client.
C8_DryRunMakesNoExternalCall ==
    [][ (/\ last' # last
         /\ \/ last'.force_dry_run = "true"
            \/ last'.force_dry_run = "none" /\ last'.env_dry_run
            \/ last'.preview_only)
           => brevo_calls' = brevo_calls ]_vars

\* a dry-run send_batch went through by default (no flag given), logged the
\* batch and recorded contacts, and the external client was never called
C8_Witness ==
    /\ last.result = "ok"
    /\ last.force_dry_run = "none" /\ last.env_dry_run /\ ~last.preview_only
    /\ \E i \in DOMAIN brevo_logs :
          brevo_logs[i].batch_id = last.batch_id /\ brevo_logs[i].status = "dry_run"
    /\ \E i \in DOMAIN contact_history : contact_history[i].batch_id = last.batch_id
    /\ brevo_calls = <<>>

\* C9: a dry-run send_batch records exactly one contact with status dry_run for
\* each targeted client: each eligible row of the run inside the batch.
C9_DryRunRecordsEachTarget ==
    [][ (/\ brevo_logs' # brevo_logs
         /\ last'.result = "ok"
         /\ \/ last'.force_dry_run = "true"
            \/ last'.force_dry_run = "none" /\ last'.env_dry_run)
           => LET targets == Take(EligibleRows(last'.tenant_id, last'.run_id), last'.batch_size)
                  recorded == SubSeq(contact_history', Len(contact_history) + 1,
                                     Len(contact_history'))
              IN  \A t \in DOMAIN targets :
                      Cardinality({i \in DOMAIN recorded :
                                      /\ recorded[i].customer_code = targets[t].customer_code
                                      /\ recorded[i].status = "dry_run"}) = 1 ]_vars

\* C10: two contacts recorded for one client by dispatches that were not dry
\* runs are at least silence_window_days apart, the window being the one of
\* the run the later dispatch was made for.
C10_ContactsRespectSilenceWindow ==
    \A i, j \in DOMAIN contact_history :
        (/\ i < j
         /\ contact_history[i].tenant_id = contact_history[j].tenant_id
         /\ contact_history[i].customer_code = contact_history[j].customer_code
         /\ contact_history[i].status # "dry_run"
         /\ contact_history[j].status # "dry_run")
           => contact_history[j].last_contact_at - contact_history[i].last_contact_at
                 >= execs[brevo_logs[contact_history[j].batch_id].run_id].silence_window_days

\* C11: no read path returns a row of another tenant than the caller's, and a
\* lookup (client, product, run export) of a key that only another tenant holds
\* answers 404, as for a key nobody holds.
C11_ReadsStayInTenant ==
    /\ \A i \in DOMAIN response.rows : response.rows[i].tenant_id = response.tenant_id
    /\ (/\ response.path = "get_client"
        /\ ~\E i \in DOMAIN clients : /\ clients[i].tenant_id = response.tenant_id
                                       /\ clients[i].client_code = response.key)
          => response.status = 404
    /\ (/\ response.path = "get_product"
        /\ ~\E i \in DOMAIN products : /\ products[i].tenant_id = response.tenant_id
                                        /\ products[i].product_key = response.key)
          => response.status = 404
    /\ (/\ response.path \in ExportPaths
        /\ ~\E r \in DOMAIN reco_runs : /\ reco_runs[r].tenant_id = response.tenant_id
                                         /\ reco_runs[r].run_id = response.key)
          => response.status = 404

\* the user of tenant 2 looked up a client code that tenant 1 holds and tenant 2
\* does not and got 404, while both tenants hold rows and runs
C11_Witness ==
    /\ response.path = "get_client" /\ response.tenant_id = 2 /\ response.status = 404
    /\ \E i \in DOMAIN clients :
          clients[i].tenant_id = 1 /\ clients[i].client_code = response.key
    /\ \E i, j \in DOMAIN reco_output :
          reco_output[i].tenant_id = 1 /\ reco_output[j].tenant_id = 2

\* C19: each run has exclusive write access to its own artifacts: when two
\* executions of generate_recommendations_run of one tenant overlap (run b
\* was started before run a and is still in progress when a is completed),
\* no step removes or changes a reco_output, audit_output, next_action_output
\* or run_summary row of the completed run a.
C19_OverlappingRunsKeepOwnRows ==
    [][ \A a \in DOMAIN reco_runs : \A b \in 1..(a - 1) :
           ( /\ execs[a].pc = "completed"
             /\ execs[b].pc \in {"started", "cleaned"}
             /\ reco_runs[b].tenant_id = reco_runs[a].tenant_id ) =>
              /\ {row \in Range(reco_output) : row.run_id = a} \subseteq Range(reco_output')
              /\ {row \in Range(audit_output) : row.run_id = a} \subseteq Range(audit_output')
              /\ {row \in Range(next_action) : row.run_id = a} \subseteq Range(next_action')
              /\ {row \in Range(run_summary) : row.run_id = a} \subseteq Range(run_summary') ]_vars

\* C20: for every client updated by an RFM recompute (compute_rfm_for_tenant
\* or recompute_client_metrics), rfm_score = R*100 + F*10 + M, where R, F and
\* M are the client's recency, frequency and monetary scores, each in 1..5.
C20_RfmScoreIsComposite ==
    \A id \in DOMAIN client_rfm :
        /\ client_rfm[id].rfm_score
              = client_rfm[id].r_score * 100 + client_rfm[id].f_score * 10
                + client_rfm[id].m_score
        /\ client_rfm[id].r_score \in 1..5
        /\ client_rfm[id].f_score \in 1..5
        /\ client_rfm[id].m_score \in 1..5

\* C12: after any sequence of loader calls for one tenant, the stored sales of
\* that tenant are unique on the natural key (tenant_id, document_id,
\* product_key, client_code), product_key being the value after alias
\* resolution, and each call loads exactly its input row count minus the
\* duplicates it removed.
C12_StoredSalesUniqueAndCounted ==
    /\ \A i, j \in DOMAIN sales :
          ( /\ sales[i].tenant_id = sales[j].tenant_id
            /\ sales[i].document_id = sales[j].document_id
            /\ sales[i].product_key = sales[j].product_key
            /\ sales[i].client_code = sales[j].client_code ) => i = j
    /\ (etl_result.op = "load_table" /\ etl_result.success) =>
          etl_result.rows_loaded = etl_result.rows_initial - etl_result.rows_duplicates

\* C18: alias resolution accounts for every sale that lacks a product_key: after
\* a successful load of a sales file, the rows of the deduplicated frame without
\* a product_key number resolved_aliases plus the sum of the unknown_labels
\* counts, and every row of that frame is loaded.
C18_AliasResolutionAccountsForEveryRow ==
    (etl_result.op = "load_table" /\ etl_result.table_name = "sales" /\ etl_result.success) =>
        LET subset == dedup_cols("sales", etl_result.csv.columns)
            df == IF subset = {} THEN etl_result.csv.rows
                  ELSE drop_duplicates(etl_result.csv.rows, subset)
        IN  /\ Len(SelectSeq(df, LacksKey))
                 = etl_result.resolved_aliases
                   + SumSeq([i \in DOMAIN etl_result.unknown_labels |->
                                etl_result.unknown_labels[i].count])
            /\ etl_result.rows_loaded = Len(df)

\* C16: a failing table load does not abort the others: in a call of
\* load_all_curated_for_tenant every curated file of a known table is loaded in
\* turn; a file refused (missing required columns, integrity error, SQL error)
\* yields success = false with a typed error_type and inserts nothing, and
\* every file that is sound is inserted, whatever the outcome of the others.
C16_FailingLoadDoesNotAbortOthers ==
    (etl_result.op = "load_all" /\ etl_result.error = "") =>
        LET known == SelectSeq(curated_dir, LAMBDA c : table_for(c.name) # "")
            loads == etl_result.loads
            sound(c) == /\ missing_cols(table_for(c.name), c.columns) = <<>>
                        /\ insert_error(table_for(c.name), c.columns, c.rows) = ""
            grown(table_name) ==
                SumSeq([i \in DOMAIN loads |->
                           IF loads[i].table_name = table_name /\ loads[i].success
                           THEN loads[i].rows_loaded ELSE 0])
        IN  /\ Len(loads) = Len(known)
            /\ \A i \in DOMAIN loads :
                  /\ loads[i].csv = known[i]
                  /\ loads[i].success = sound(known[i])
                  /\ ~loads[i].success =>
                        /\ loads[i].error_type
                              \in {"MissingColumns", "IntegrityError", "SQLAlchemyError"}
                        /\ loads[i].rows_loaded = 0
                  /\ loads[i].success => loads[i].rows_loaded > 0
            /\ Len(sales) = Len(etl_result.before.sales) + grown("sales")
            /\ Len(clients) = Len(etl_result.before.clients) + grown("clients")
            /\ Len(products) = Len(etl_result.before.products) + grown("products")

\* a call in which a refused file was followed by a file of another table that
\* was loaded
C16_Witness ==
    /\ etl_result.op = "load_all"
    /\ \E i, j \in DOMAIN etl_result.loads :
          /\ i < j
          /\ ~etl_result.loads[i].success
          /\ etl_result.loads[j].success
          /\ etl_result.loads[i].table_name # etl_result.loads[j].table_name
          /\ Len(clients) > Len(etl_result.before.clients)

\* C13: the pipeline is re-runnable: a run of run_etl_for_tenant that follows an
\* earlier run and finds no new raw file (every raw file is in the manifest)
\* leaves the stored clients, products and sales unchanged.
C13_RerunWithoutNewFileChangesNothing ==
    [][ ( /\ etl_result.op = "run_etl"
          /\ \A i \in DOMAIN raw_dir : raw_dir[i].name \in manifest )
        => (clients' = clients /\ products' = products /\ sales' = sales) ]_vars

\* C17: ingestion and loader errors never cross the orchestrator boundary as
\* exceptions: whatever the tenant's directories hold, run_etl_for_tenant
\* returns an outcome, and with success = false when there is no curated file
\* or a file failed to load.
C17_RunEtlReturnsAnOutcome ==
    etl_result.op = "run_etl" =>
        /\ etl_result.raised = ""
        /\ (\E i \in DOMAIN etl_result.loads : ~etl_result.loads[i].success)
              => ~etl_result.success

C15_NoPromotionWithContractErrors ==
    /\ \A r \in DOMAIN runs_dir : \A i \in DOMAIN runs_dir[r].curated :
          (\E e \in DOMAIN runs_dir[r].errors :
               runs_dir[r].errors[e].table = stem(runs_dir[r].raw[i].name))
              => runs_dir[r].curated[i].rows = <<>>
    /\ (etl_result.op = "load_table"
        /\ _validate_contract(etl_result.table_name, etl_result.csv.columns).errors # <<>>)
           => etl_result.rows_loaded = 0

\* C30: no ingested file is lost silently: when run_etl_for_tenant returns
\* success = true, every raw file it ingested in that run (and entered in the
\* manifest, so that no later run takes it up again) was transformed and its
\* curated file loaded with success.
C30_IngestedFileLoadedOrRunFails ==
    (etl_result.op = "run_etl" /\ etl_result.raised = "" /\ etl_result.success)
        => \A f \in DOMAIN etl_result.ingested_files :
              \E i \in DOMAIN etl_result.loads :
                  /\ etl_result.loads[i].csv.name = curated_name(etl_result.ingested_files[f].name)
                  /\ etl_result.loads[i].success

\* C24: the rule-based fallback gives the same result as the weighted policy
\* with the default weights: for every client, the scenario the heuristics
\* choose is the scenario ScenarioService.decide chooses.
C24_RuleBasedEqualsWeightedDefault ==
    response.path = "_select_scenario"
        => response.rows[1].rule_based = response.rows[1].scenario

\* the place of a product_key in the lexicographic order of the keys
KeyOrder(product_key) ==
    CASE product_key = "P1" -> 1 [] product_key = "P2" -> 2 [] product_key = "P3" -> 3
      [] product_key = "P4" -> 4 [] product_key = "P5" -> 5 [] product_key = "P6" -> 6
      [] OTHER -> 0

\* the sales of the client a reco_output row is for
PurchasesOf(row) ==
    SelectSeq(sales, LAMBDA s : s.tenant_id = row.tenant_id
                                 /\ s.client_code = row.customer_code)

\* the product a reco_output row recommends
ProductOf(row) ==
    MapGet(product_map_of(TenantRows(products, row.tenant_id)), row.product_key)

\* C25: within one client's recommendations of a run, rank follows score: a row
\* of smaller rank never has a lower score than a row of larger rank, and rows
\* of equal score are ordered by product_key ascending.
C25_RankFollowsScore ==
    \A a, b \in Range(reco_output) :
        (a.run_id = b.run_id /\ a.tenant_id = b.tenant_id
         /\ a.customer_code = b.customer_code /\ a.rank < b.rank)
            => /\ a.score >= b.score
               /\ a.score = b.score => KeyOrder(a.product_key) < KeyOrder(b.product_key)

\* C26: every recommendation whose scenario is not rebuy is for a product the
\* client has never purchased.
C26_OnlyRebuyRecommendsPurchased ==
    \A row \in Range(reco_output) :
        row.scenario # "rebuy"
            => \A i \in DOMAIN PurchasesOf(row) :
                  PurchasesOf(row)[i].product_key # row.product_key

\* C27: every upsell recommendation written by a run has a price strictly above
\* the client's average purchase price, and the audit of that run holds no
\* UPSELL_NOT_HIGHER row for the client.
C27_EngineAndAuditAgreeOnUpsell ==
    \A row \in Range(reco_output) :
        row.scenario = "upsell"
            => /\ ~NotAboveAuditAverage(PriceOr0(ProductOf(row)), PurchasesOf(row),
                                        product_map_of(TenantRows(products, row.tenant_id)))
               /\ \A issue \in Range(audit_output) :
                     ~(/\ issue.run_id = row.run_id
                       /\ issue.tenant_id = row.tenant_id
                       /\ issue.customer_code = row.customer_code
                       /\ issue.rule_code = "UPSELL_NOT_HIGHER")

\* C28: a rebuy recommendation is never for a product the client purchased in
\* the 30 days before the run, whatever older purchases of it there are.
C28_RebuySkipsRecentPurchases ==
    \A row \in Range(reco_output) :
        row.scenario = "rebuy"
            => \A i \in DOMAIN PurchasesOf(row) :
                  ~(/\ PurchasesOf(row)[i].product_key = row.product_key
                    /\ PurchasesOf(row)[i].sale_date # None
                    /\ reco_runs[row.run_id].started_at - PurchasesOf(row)[i].sale_date
                           < RebuyExclusionDays)

\* C29: no run writes a recommendation for a product that is inactive or
\* archived, under any scenario.
C29_NoInactiveOrArchivedProduct ==
    \A row \in Range(reco_output) :
        ProductOf(row).is_active /\ ~ProductOf(row).is_archived

\* C21: after a popularity recompute of a tenant, each product of the tenant has
\* a global_popularity_score in [0,1] equal to the number of the tenant's sales
\* of the product divided by the number of the tenant's sales, 0 when the
\* tenant has no sale left.
C21_PopularityIsShareOfSales ==
    response.path = "compute_products_popularity" =>
        \A i \in DOMAIN products :
            products[i].tenant_id = response.tenant_id =>
                LET score == products[i].global_popularity_score
                    total == Len(TenantRows(sales, response.tenant_id))
                    count == Len(SelectSeq(TenantRows(sales, response.tenant_id),
                                           LAMBDA s : s.product_key = products[i].product_key))
                IN  /\ 0 <= score[1] /\ score[1] <= score[2]
                    /\ score[1] * (IF total = 0 THEN 1 ELSE total) = count * score[2]

\* the sum of the amounts of the sales of a client, a NULL amount counting 0
AmountOf(tenant_id, client_code) ==
    LET mine == SelectSeq(sales, LAMBDA s : s.tenant_id = tenant_id
                                             /\ s.client_code = client_code)
    IN  SumSeq([i \in DOMAIN mine |-> IF mine[i].amount = None THEN 0 ELSE mine[i].amount])

\* the documents of the sales of a client
DocumentsOf(tenant_id, client_code) ==
    {sales[i].document_id : i \in {j \in DOMAIN sales : /\ sales[j].tenant_id = tenant_id
                                                        /\ sales[j].client_code = client_code}}
    \ {""}

\* the sales of a client, counted
SalesCountOf(tenant_id, client_code) ==
    Cardinality({j \in DOMAIN sales : /\ sales[j].tenant_id = tenant_id
                                      /\ sales[j].client_code = client_code})

\* the clients a write on a sale affects: the client of the sale before the
\* call and the client of the sale returned
AffectedClients ==
    {c \in Range(clients) :
        /\ response.path \in {"create_sale", "update_sale", "delete_sale"}
        /\ response.status # 404
        /\ c.tenant_id = response.tenant_id
        /\ \/ c.client_code = response.key
           \/ \E i \in DOMAIN response.rows : c.client_code = response.rows[i].client_code}

\* the columns of a client are the ones derived from its current sales, given
\* its number of orders
DerivedFrom(c, total_orders) ==
    /\ c.id \in DOMAIN client_rfm
    /\ client_rfm[c.id].total_spent = AmountOf(c.tenant_id, c.client_code)
    /\ client_rfm[c.id].total_orders = total_orders
    /\ client_rfm[c.id].average_order_value =
           (IF total_orders = 0 THEN <<0, 1>>
            ELSE <<AmountOf(c.tenant_id, c.client_code), total_orders>>)
    /\ client_rfm[c.id].rfm_score =
           _recency_score(IF SalesCountOf(c.tenant_id, c.client_code) = 0 THEN None ELSE 0) * 100
           + _frequency_score(total_orders) * 10
           + _monetary_score(AmountOf(c.tenant_id, c.client_code))

\* C22, as stated: after a create, update or delete of a sale through the sales
\* API, every affected client's total_spent is the sum of the amounts of its
\* current sales, total_orders is its number of distinct documents, and
\* average_order_value and rfm_score are the values derived from them.
C22_MetricsFollowSales_AsStated ==
    \A c \in AffectedClients :
        DerivedFrom(c, Cardinality(DocumentsOf(c.tenant_id, c.client_code)))

\* C22, amended: the same, total_orders being the number of distinct documents
\* of the client's sales or, when none of its sales carries a document_id, the
\* number of its sales.
C22_MetricsFollowSales ==
    \A c \in AffectedClients :
        DerivedFrom(c, IF DocumentsOf(c.tenant_id, c.client_code) # {}
                       THEN Cardinality(DocumentsOf(c.tenant_id, c.client_code))
                       ELSE SalesCountOf(c.tenant_id, c.client_code))

\* a single sale of 100 today was created for C1 of tenant 1, which now has
\* 100, 1, 100 and 511
C22_Witness ==
    /\ response.path = "create_sale" /\ response.status = 201 /\ response.tenant_id = 1
    /\ Len(sales) = 1 /\ sales[1].amount = 100 /\ sales[1].sale_date = now
    /\ \E c \in AffectedClients :
          /\ client_rfm[c.id].total_spent = 100
          /\ client_rfm[c.id].total_orders = 1
          /\ client_rfm[c.id].average_order_value = <<100, 1>>
          /\ client_rfm[c.id].rfm_score = 511

\* C23: a DELETE /clients/{client_code} on a client the caller can access and
\* that has at least one sale answers 409 and leaves the clients and the sales
\* as they were.
C23_DeleteClientWithSalesConflicts ==
    [][\A current_user \in Writers, client_code \in {"C1", "C2"} :
          (/\ response'.path = "delete_client"
           /\ response'.user_id = current_user.id
           /\ response'.key = client_code
           /\ SelectSeq(_accessible_clients_query(current_user),
                        LAMBDA c : c.client_code = client_code) # <<>>
           /\ \E i \in DOMAIN sales : /\ sales[i].tenant_id = current_user.tenant_id
                                      /\ sales[i].client_code = client_code)
          => (response'.status = 409 /\ clients' = clients /\ sales' = sales)]_vars

====
